---- MODULE Spec2Model ----
(***************************************************************************)
(* Model of the fuzzy rule-based control engine of BaseCode-2024:          *)
(*   src/Lab3/fcontrol.py    FController, Behavior, FEval, ramp_up, ...    *)
(*   src/Lab3/controller.py  GoToTarget, init_controls, compute_ctr        *)
(*   src/Lab5-TFC/controller.py  GoTo, Cross, Open, Close, Controller      *)
(*                                                                         *)
(* Python floats are modelled by exact rationals <<n, d>> in lowest terms  *)
(* with d > 0.  A fuzzy statement (a Python str) is modelled as the        *)
(* sequence of its lexical pieces: a piece is one blank " ", one "(" ,     *)
(* one ")" or a maximal run of other characters (a word).                  *)
(***************************************************************************)
EXTENDS Integers, Sequences, FiniteSets, TLC

(***************************************************************************)
(* Rational arithmetic (the float arithmetic of fcontrol.py).              *)
(***************************************************************************)
Abs(n) == IF n < 0 THEN -n ELSE n

RECURSIVE Gcd(_, _)
Gcd(a, b) == IF b = 0 THEN a ELSE Gcd(b, a % b)

Reduce(n, d, g) == << n \div g, d \div g >>

Rat(n, d) == Reduce(IF d < 0 THEN -n ELSE n, Abs(d), Gcd(Abs(n), Abs(d)))

Zero == Rat(0, 1)
One  == Rat(1, 1)

RAdd(p, q) == Rat(p[1] * q[2] + q[1] * p[2], p[2] * q[2])
RSub(p, q) == Rat(p[1] * q[2] - q[1] * p[2], p[2] * q[2])
RMul(p, q) == Rat(p[1] * q[1], p[2] * q[2])
RDiv(p, q) == Rat(p[1] * q[2], p[2] * q[1])
RLeq(p, q) == p[1] * q[2] <= q[1] * p[2]
RLt(p, q)  == p[1] * q[2] < q[1] * p[2]
RMin(p, q) == IF RLeq(p, q) THEN p ELSE q
RMax(p, q) == IF RLeq(q, p) THEN p ELSE q

(***************************************************************************)
(* Results of the evaluator's parse functions: a value, Python's None, or  *)
(* a raised exception.                                                     *)
(***************************************************************************)
Val(v)    == [kind |-> "val", v |-> v]
NoneRes   == [kind |-> "None", v |-> Zero]
Raised(e) == [kind |-> e, v |-> Zero]
IsVal(r)  == r.kind = "val"
IsNone(r) == r.kind = "None"
IsRaised(r) == r.kind \notin {"val", "None"}

(***************************************************************************)
(* FEval.eval's tokenizer:                                                 *)
(*   deque(stmt.replace('(',' ( ').replace(')',' ) ').split())             *)
(***************************************************************************)
RECURSIVE Replace(_, _, _)
Replace(s, old, new) ==
    IF s = <<>> THEN <<>>
    ELSE (IF Head(s) = old THEN new ELSE <<Head(s)>>) \o Replace(Tail(s), old, new)

\* str.split(): cut at runs of blanks; adjacent non-blank pieces are one word.
RECURSIVE SplitFrom(_, _, _)
SplitFrom(s, cur, inword) ==
    IF s = <<>> THEN (IF inword THEN <<cur>> ELSE <<>>)
    ELSE IF Head(s) = " "
         THEN (IF inword THEN <<cur>> ELSE <<>>) \o SplitFrom(Tail(s), "", FALSE)
         ELSE SplitFrom(Tail(s), cur \o Head(s), TRUE)

Split(s) == SplitFrom(s, "", FALSE)

Tokenize(stmt) ==
    Split(Replace(Replace(stmt, "(", <<" ", "(", " ">>), ")", <<" ", ")", " ">>))

(***************************************************************************)
(* class FEval.  An evaluator object is [debug, fpreds]; the token deque   *)
(* self.input is threaded through the parse functions, each of which       *)
(* returns [res, input].                                                   *)
(***************************************************************************)
NoToken == " "     \* this() returning None; no token ever contains a blank

this(input) == IF Len(input) < 1 THEN NoToken ELSE input[1]

is_atom(token) == token \notin {"NOT", "AND", "OR", "(", ")"}

\* str(float) for the trace mode, on the values of the model
StrOf(v) ==
    IF v[2] = 1 THEN ToString(v[1]) \o ".0"
    ELSE ToString(v[1]) \o "/" \o ToString(v[2])

eval_pred(self, pred) ==
    IF pred \notin DOMAIN self.fpreds THEN Raised("LookupError")
    ELSE IF self.debug = 0 THEN Val(self.fpreds[pred])
    ELSE Val("[" \o StrOf(self.fpreds[pred]) \o "]")

\* (a faulty variant: AND computed as the maximum)
eval_and_max(self, lhs, rhs) ==
    IF self.debug = 0 THEN RMax(lhs, rhs) ELSE "min(" \o lhs \o ", " \o rhs

eval_and(self, lhs, rhs) ==
    IF self.debug = 0 THEN RMin(lhs, rhs) ELSE "min(" \o lhs \o ", " \o rhs

eval_or(self, lhs, rhs) ==
    IF self.debug = 0 THEN RMax(lhs, rhs) ELSE "max(" \o lhs \o ", " \o rhs

\* (a faulty variant: NOT leaves its operand as it is)
eval_not_identity(self, term) ==
    IF self.debug = 0 THEN term ELSE "1 - " \o term

eval_not(self, term) ==
    IF self.debug = 0 THEN RSub(One, term) ELSE "1 - " \o term

\* (a faulty variant: an enclosure evaluates to 0)
eval_paren_zero(self, stmt) ==
    IF self.debug = 0 THEN Zero ELSE "(" \o stmt \o ")"

eval_paren(self, stmt) ==
    IF self.debug = 0 THEN stmt ELSE "(" \o stmt \o ")"

parse_atom(self, input) ==
    IF Len(input) < 1 THEN [res |-> Raised("IndexError"), input |-> input]
    ELSE LET token == Head(input) IN
         IF is_atom(token)
         THEN [res |-> eval_pred(self, token), input |-> Tail(input)]
         ELSE [res |-> NoneRes, input |-> Tail(input)]

RECURSIVE parse_stmt(_, _)
RECURSIVE parse_term(_, _)
RECURSIVE parse_encl(_, _)

parse_encl(self, input) ==
    IF this(input) = "("
    THEN LET expr == parse_stmt(self, Tail(input)) IN
         IF ~IsVal(expr.res) THEN expr
         ELSE IF this(expr.input) = ")"
              THEN [res |-> Val(eval_paren(self, expr.res.v)), input |-> Tail(expr.input)]
              ELSE [res |-> NoneRes, input |-> expr.input]
    ELSE [res |-> NoneRes, input |-> input]

parse_term(self, input) ==
    IF this(input) = "NOT"
    THEN LET term == parse_encl(self, Tail(input)) IN
         IF ~IsVal(term.res) THEN term
         ELSE [res |-> Val(eval_not(self, term.res.v)), input |-> term.input]
    ELSE IF is_atom(this(input))
         THEN parse_atom(self, input)
         ELSE parse_encl(self, input)

parse_stmt(self, input) ==
    LET lhs == parse_term(self, input) IN
    IF ~IsVal(lhs.res) THEN lhs
    ELSE LET op == this(lhs.input) IN
         IF op = "AND"
         THEN LET rhs == parse_term(self, Tail(lhs.input)) IN
              IF ~IsVal(rhs.res) THEN rhs
              ELSE [res |-> Val(eval_and(self, lhs.res.v, rhs.res.v)), input |-> rhs.input]
         ELSE IF op = "OR"
         THEN LET rhs == parse_term(self, Tail(lhs.input)) IN
              IF ~IsVal(rhs.res) THEN rhs
              ELSE [res |-> Val(eval_or(self, lhs.res.v, rhs.res.v)), input |-> rhs.input]
         ELSE lhs

\* (a faulty variant: the outcome of parse_stmt returned without the assertion)
eval_unchecked(self, stmt) == parse_stmt(self, Tokenize(stmt))

\* (a faulty variant: the tokens are appended to the deque left by the
\* preceding call instead of replacing it)
eval_resuming(self, stmt) ==
    LET result == parse_stmt(self, self.input \o Tokenize(stmt)) IN
    IF IsNone(result.res)
    THEN [res |-> Raised("AssertionError"), input |-> result.input]
    ELSE result

\* FEval.eval: tokenize, parse one statement, fail the assertion on None.
\* Returns [res, input]: the outcome and the tokens left in self.input.
eval(self, stmt) ==
    LET result == parse_stmt(self, Tokenize(stmt)) IN
    IF IsNone(result.res)
    THEN [res |-> Raised("AssertionError"), input |-> result.input]
    ELSE result

(***************************************************************************)
(* Membership function builders.  A built function is the record of its    *)
(* shape parameters; mu applies it.  The builders assert a <= b (<= c).    *)
(***************************************************************************)
ramp_up(a, b)     == [shape |-> "ramp_up", a |-> a, b |-> b, c |-> b]
\* (a faulty variant: ramp_down builds the rising ramp)
ramp_down_rising(a, b) == [shape |-> "ramp_up", a |-> a, b |-> b, c |-> b]

ramp_down(a, b)   == [shape |-> "ramp_down", a |-> a, b |-> b, c |-> b]
triangle(a, b, c) == [shape |-> "triangle", a |-> a, b |-> b, c |-> c]

\* (a faulty variant: the linear pieces without the clamping outside the span)
mu_unclamped(f, x) ==
    IF f.shape = "ramp_up" THEN RDiv(RSub(x, f.a), RSub(f.b, f.a))
    ELSE IF f.shape = "ramp_down" THEN RDiv(RSub(f.b, x), RSub(f.b, f.a))
    ELSE IF RLeq(x, f.b) THEN RDiv(RSub(x, f.a), RSub(f.b, f.a))
         ELSE RDiv(RSub(f.c, x), RSub(f.c, f.b))

mu(f, x) ==
    IF f.shape = "ramp_up"
    THEN IF RLeq(x, f.a) THEN Zero
         ELSE IF RLt(f.b, x) THEN One
         ELSE RDiv(RSub(x, f.a), RSub(f.b, f.a))
    ELSE IF f.shape = "ramp_down"
    THEN IF RLeq(x, f.a) THEN One
         ELSE IF RLt(f.b, x) THEN Zero
         ELSE RDiv(RSub(f.b, x), RSub(f.b, f.a))
    ELSE IF RLeq(x, f.a) THEN Zero
         ELSE IF RLt(f.c, x) THEN Zero
         ELSE IF RLeq(x, f.b) THEN RDiv(RSub(x, f.a), RSub(f.b, f.a))
         ELSE RDiv(RSub(f.c, x), RSub(f.c, f.b))

\* The builders' assertions: a <= b (and b <= c for triangle)
build(shape, a, b, c) ==
    IF shape = "ramp_up"
    THEN IF RLeq(a, b) THEN [kind |-> "val", f |-> ramp_up(a, b)]
         ELSE [kind |-> "AssertionError", f |-> ramp_up(a, b)]
    ELSE IF shape = "ramp_down"
    THEN IF RLeq(a, b) THEN [kind |-> "val", f |-> ramp_down(a, b)]
         ELSE [kind |-> "AssertionError", f |-> ramp_down(a, b)]
    ELSE IF RLeq(a, b) /\ RLeq(b, c) THEN [kind |-> "val", f |-> triangle(a, b, c)]
         ELSE [kind |-> "AssertionError", f |-> triangle(a, b, c)]

\* (a faulty variant: the quotient computed before the tests on x)
mu_div_eager(f, x) ==
    IF f.shape \in {"ramp_up", "ramp_down"} THEN RSub(f.b, f.a)
    ELSE IF RLeq(x, f.b) THEN RSub(f.b, f.a) ELSE RSub(f.c, f.b)

\* The divisor of the return statement mu(x) reaches: b-a or c-b in a linear
\* piece, 1 where it returns a constant
mu_div(f, x) ==
    IF f.shape \in {"ramp_up", "ramp_down"}
    THEN IF RLeq(x, f.a) \/ RLt(f.b, x) THEN One ELSE RSub(f.b, f.a)
    ELSE IF RLeq(x, f.a) \/ RLt(f.c, x) THEN One
         ELSE IF RLeq(x, f.b) THEN RSub(f.b, f.a) ELSE RSub(f.c, f.b)

\* The call mu(x): its value, or ZeroDivisionError
mu_call(f, x) ==
    IF mu_div(f, x) = Zero THEN Raised("ZeroDivisionError") ELSE Val(mu(f, x))

(***************************************************************************)
(* Tables of a behavior.  Python dicts keep insertion order, so a table is *)
(* a sequence of entries; names are unique within a table.                 *)
(***************************************************************************)
Pred(name, f, var)             == [name |-> name, f |-> f, var |-> var]
LVar(name, labels, cvar)       == [name |-> name, labels |-> labels, cvar |-> cvar]
Rule(name, ante, lvar, label)  == [name |-> name, ante |-> ante, lvar |-> lvar, label |-> label]

Range(s)     == {s[k] : k \in 1..Len(s)}
Names(table) == {e.name : e \in Range(table)}
Entry(table, name) == CHOOSE e \in Range(table) : e.name = name

\* str -> value dicts whose iteration order matters: sequences of <<key, value>>
DKeys(d)      == {d[k][1] : k \in 1..Len(d)}
DHas(d, key)  == key \in DKeys(d)
DGet(d, key)  == (CHOOSE e \in Range(d) : e[1] = key)[2]
DPut(d, key, v) ==
    IF DHas(d, key)
    THEN [k \in 1..Len(d) |-> IF d[k][1] = key THEN <<key, v>> ELSE d[k]]
    ELSE Append(d, <<key, v>>)

\* dicts whose order is never observed: functions; d[key] = v
Put(d, key, v) == (key :> v) @@ d
EmptyDict == [k \in {} |-> Zero]

(***************************************************************************)
(* Behavior subclasses.  Setup(cls) is what setup() of the class assigns   *)
(* to the instance: fpreds, flvars, frules, fgoal; an attribute setup()    *)
(* does not assign resolves to FController's class attribute ({} or "").   *)
(* init tells whether setup() ends with init_flsets() and init_fpreds();   *)
(* update names the class's update_state.                                  *)
(***************************************************************************)
Lab5Variants == {"GoTo", "Cross", "Open", "Close"}

\* src/Lab3/controller.py
GoToTarget_setup ==
    [fpreds |-> << Pred("TargetLeft",  ramp_up(Rat(5, 1), Rat(60, 1)), "phi"),
                   Pred("TargetRight", ramp_down(Rat(-60, 1), Rat(-5, 1)), "phi"),
                   Pred("TargetAhead", triangle(Rat(-60, 1), Rat(0, 1), Rat(60, 1)), "phi"),
                   Pred("TargetHere",  ramp_down(Rat(1, 10), Rat(2, 1)), "rho") >>,
     flvars |-> << LVar("Move", << <<"Fast", Rat(1, 2)>>, <<"Slow", Rat(1, 10)>>,
                                   <<"None", Rat(0, 1)>>, <<"Back", Rat(-1, 10)>> >>, "Vlin"),
                   LVar("Turn", << <<"Left", Rat(40, 1)>>, <<"MLeft", Rat(10, 1)>>,
                                   <<"None", Rat(0, 1)>>, <<"MRight", Rat(-10, 1)>>,
                                   <<"Right", Rat(-40, 1)>> >>, "Vrot") >>,
     frules |-> << Rule("ToLeft",  <<"TargetLeft", " ", "AND", " ", "NOT", "(", "TargetHere", ")">>,
                        "Turn", "Left"),
                   Rule("ToRight", <<"TargetRight", " ", "AND", " ", "NOT", "(", "TargetHere", ")">>,
                        "Turn", "Right"),
                   Rule("Far",     <<"TargetAhead", " ", "AND", " ", "NOT", "(", "TargetHere", ")">>,
                        "Move", "Fast"),
                   Rule("Stop",    <<"TargetHere">>, "Move", "None") >>,
     fgoal  |-> <<"TargetHere">>,
     init   |-> TRUE,
     update |-> "GoToTarget"]

\* src/Lab5-TFC/controller.py: GoTo, Cross, Open, Close only set fgoal = "True"
Lab5_setup ==
    [fpreds |-> <<>>, flvars |-> <<>>, frules |-> <<>>,
     fgoal  |-> <<"True">>, init |-> FALSE, update |-> "pass"]

\* Further subclasses written against the Behavior contract (inputs of the
\* model).  Steer is well formed: two rules share the consequent Move/Fast.
Steer_setup ==
    [fpreds |-> << Pred("Left", ramp_up(Rat(5, 1), Rat(60, 1)), "phi"),
                   Pred("Near", ramp_down(Rat(0, 1), Rat(10, 1)), "rho") >>,
     flvars |-> << LVar("Turn", << <<"None", Rat(0, 1)>>, <<"Left", Rat(40, 1)>>,
                                   <<"Right", Rat(-40, 1)>> >>, "Vrot"),
                   LVar("Move", << <<"None", Rat(0, 1)>>, <<"Fast", Rat(1, 2)>> >>, "Vlin") >>,
     frules |-> << Rule("L", <<"Left">>, "Turn", "Left"),
                   Rule("R", <<"Near">>, "Turn", "Right"),
                   Rule("F1", <<"Left">>, "Move", "Fast"),
                   Rule("F2", <<"Near">>, "Move", "Fast") >>,
     fgoal  |-> <<"Near">>,
     init   |-> TRUE,
     update |-> "GoToTarget"]

\* Pivot is well formed and turns in place: its only output variable is Vrot.
Pivot_setup ==
    [fpreds |-> << Pred("Left", ramp_up(Rat(5, 1), Rat(60, 1)), "phi") >>,
     flvars |-> << LVar("Turn", << <<"None", Rat(0, 1)>>, <<"Left", Rat(40, 1)>> >>, "Vrot") >>,
     frules |-> << Rule("L", <<"Left">>, "Turn", "Left") >>,
     fgoal  |-> <<"NOT", "(", "Left", ")">>,
     init   |-> TRUE,
     update |-> "GoToTarget"]

\* Brake's rule and goal name TargetHere, which Brake does not declare.
Brake_setup ==
    [fpreds |-> << Pred("Near", ramp_down(Rat(0, 1), Rat(10, 1)), "rho") >>,
     flvars |-> << LVar("Move", << <<"None", Rat(0, 1)>>, <<"Fast", Rat(1, 2)>> >>, "Vlin"),
                   LVar("Turn", << <<"None", Rat(0, 1)>>, <<"Left", Rat(40, 1)>> >>, "Vrot") >>,
     frules |-> << Rule("Stop", <<"TargetHere">>, "Move", "None") >>,
     fgoal  |-> <<"TargetHere">>,
     init   |-> TRUE,
     update |-> "GoToTarget"]

\* Drift's rule names the linguistic variable Spin, which does not exist.
Drift_setup ==
    [fpreds |-> << Pred("Near", ramp_down(Rat(0, 1), Rat(10, 1)), "rho") >>,
     flvars |-> << LVar("Move", << <<"None", Rat(0, 1)>>, <<"Fast", Rat(1, 2)>> >>, "Vlin") >>,
     frules |-> << Rule("Go", <<"Near">>, "Spin", "Left") >>,
     fgoal  |-> <<"Near">>,
     init   |-> TRUE,
     update |-> "GoToTarget"]

\* Veer's rule names the label Hard, which Move does not have.
Veer_setup ==
    [fpreds |-> << Pred("Near", ramp_down(Rat(0, 1), Rat(10, 1)), "rho") >>,
     flvars |-> << LVar("Move", << <<"None", Rat(0, 1)>>, <<"Fast", Rat(1, 2)>> >>, "Vlin") >>,
     frules |-> << Rule("Go", <<"Near">>, "Move", "Hard") >>,
     fgoal  |-> <<"Near">>,
     init   |-> TRUE,
     update |-> "GoToTarget"]

\* Lurch's goal is a NOT with nothing to negate.
Lurch_setup ==
    [fpreds |-> << Pred("Near", ramp_down(Rat(0, 1), Rat(10, 1)), "rho") >>,
     flvars |-> << LVar("Move", << <<"None", Rat(0, 1)>>, <<"Fast", Rat(1, 2)>> >>, "Vlin"),
                   LVar("Turn", << <<"None", Rat(0, 1)>>, <<"Left", Rat(40, 1)>> >>, "Vrot") >>,
     frules |-> << Rule("Go", <<"Near">>, "Move", "Fast") >>,
     fgoal  |-> <<"NOT">>,
     init   |-> TRUE,
     update |-> "GoToTarget"]

Malformed == {"Brake", "Drift", "Veer"}
Classes   == {"GoToTarget", "Steer", "Pivot", "Lurch"} \cup Malformed \cup Lab5Variants

Setup(cls) ==
    IF cls = "GoToTarget" THEN GoToTarget_setup
    ELSE IF cls = "Steer" THEN Steer_setup
    ELSE IF cls = "Pivot" THEN Pivot_setup
    ELSE IF cls = "Brake" THEN Brake_setup
    ELSE IF cls = "Drift" THEN Drift_setup
    ELSE IF cls = "Veer"  THEN Veer_setup
    ELSE IF cls = "Lurch" THEN Lurch_setup
    ELSE Lab5_setup

(***************************************************************************)
(* class FController.  state, output, flsets and fpvals are CLASS          *)
(* attributes (fcontrol.py 49-55): no method ever rebinds them on an       *)
(* instance, every method mutates them in place through self, so all       *)
(* instances of all subclasses read and write the same four dicts.  The    *)
(* methods below take the instance's tables (self) and the record m of the *)
(* four dicts, and return m updated; m.err is "ok" or the exception that   *)
(* ended the call, m.trace the pipeline steps entered so far.              *)
(***************************************************************************)
Step(m, name) == [m EXCEPT !.trace = Append(@, name)]
Raise(m, e)   == [m EXCEPT !.err = e]

ZeroSet(labels) == [l \in {labels[k][1] : k \in 1..Len(labels)} |-> Zero]

RECURSIVE init_flsets_from(_, _, _)
init_flsets_from(self, m, k) ==
    IF k > Len(self.flvars) THEN m
    ELSE LET flvar == self.flvars[k] IN
         init_flsets_from(self,
             [m EXCEPT !.flsets = Put(@, flvar.cvar,
                                      [mus |-> ZeroSet(flvar.labels), name |-> flvar.name]),
                       !.output = DPut(@, flvar.cvar, Zero)],
             k + 1)

init_flsets(self, m) == init_flsets_from(self, m, 1)

RECURSIVE init_fpreds_from(_, _, _)
init_fpreds_from(self, m, k) ==
    IF k > Len(self.fpreds) THEN m
    ELSE init_fpreds_from(self, [m EXCEPT !.fpvals = Put(@, self.fpreds[k].name, Zero)], k + 1)

init_fpreds(self, m) == init_fpreds_from(self, m, 1)

\* eval_fpred: fpred[0](self.state[fpred[1]]); KeyError when the input
\* variable is not in self.state
RECURSIVE eval_fpreds_from(_, _, _)
eval_fpreds_from(self, m, k) ==
    IF k > Len(self.fpreds) THEN m
    ELSE LET fpred == self.fpreds[k] IN
         IF fpred.var \notin DOMAIN m.state THEN Raise(m, "KeyError")
         ELSE eval_fpreds_from(self,
                  [m EXCEPT !.fpvals = Put(@, fpred.name, mu(fpred.f, m.state[fpred.var]))],
                  k + 1)

eval_fpreds(self, m) == eval_fpreds_from(self, Step(m, "eval_fpreds"), 1)

\* self.fevaluator.set_interpretation(self.fpvals)
set_interpretation(m) == IF m.err # "ok" THEN m ELSE Step(m, "set_interpretation")

\* self.fevaluator after set_interpretation(self.fpvals): the interpretation
\* is the class-level dict itself, not a copy
fevaluator(m) == [debug |-> 0, fpreds |-> m.fpvals]

\* (a faulty variant: the rule's level replaces the label's activation)
aggregate_overwrite(m, cvar, label, level) ==
    IF ~IsVal(level) THEN Raise(m, level.kind)
    ELSE IF label \notin DOMAIN m.flsets[cvar].mus THEN Raise(m, "KeyError")
    ELSE [m EXCEPT !.flsets[cvar].mus[label] = level.v]

\* flset[label] = max(flset[label], level)
aggregate(m, cvar, label, level) ==
    IF ~IsVal(level) THEN Raise(m, level.kind)
    ELSE IF label \notin DOMAIN m.flsets[cvar].mus THEN Raise(m, "KeyError")
    ELSE [m EXCEPT !.flsets[cvar].mus[label] = RMax(@, level.v)]

eval_frule_on(m, flvar, frule) ==
    IF flvar.cvar \notin DOMAIN m.flsets THEN Raise(m, "KeyError")
    ELSE aggregate(m, flvar.cvar, frule.label, eval(fevaluator(m), frule.ante).res)

eval_frule(self, m, frule) ==
    IF frule.lvar \notin Names(self.flvars) THEN Raise(m, "KeyError")
    ELSE eval_frule_on(m, Entry(self.flvars, frule.lvar), frule)

RECURSIVE eval_frules_from(_, _, _)
eval_frules_from(self, m, k) ==
    IF k > Len(self.frules) \/ m.err # "ok" THEN m
    ELSE eval_frules_from(self, eval_frule(self, Step(m, "eval_frule"), self.frules[k]), k + 1)

\* (a faulty variant: the fuzzy sets are not reset before the rules)
eval_frules_noreset(self, m) ==
    IF m.err # "ok" THEN m
    ELSE eval_frules_from(self, m, 1)

eval_frules(self, m) ==
    IF m.err # "ok" THEN m
    ELSE eval_frules_from(self, init_flsets(self, Step(m, "init_flsets")), 1)

eval_goal(self, m) == eval(fevaluator(m), self.fgoal).res

\* defuzzify_var: Val(sumv / sumu), NoneRes when sumu == 0.0, or KeyError
RECURSIVE SumV(_, _, _)
SumV(vals, mus, k) ==
    IF k > Len(vals) THEN Zero
    ELSE RAdd(RMul(mus[vals[k][1]], vals[k][2]), SumV(vals, mus, k + 1))

\* (a faulty variant: the weighted sum is divided by the number of labels)
SumU_labels(vals, mus, k) == Rat(Len(vals) - k + 1, 1)

RECURSIVE SumU(_, _, _)
SumU(vals, mus, k) ==
    IF k > Len(vals) THEN Zero
    ELSE RAdd(mus[vals[k][1]], SumU(vals, mus, k + 1))

\* (a faulty variant: the weighted sum is not divided by the total activation)
centroid_unnormalised(sumv, sumu) == IF sumu = Zero THEN NoneRes ELSE Val(sumv)

centroid(sumv, sumu) == IF sumu = Zero THEN NoneRes ELSE Val(RDiv(sumv, sumu))

defuzzify_sets(vals, mus) ==
    IF \E k \in 1..Len(vals) : vals[k][1] \notin DOMAIN mus THEN Raised("KeyError")
    ELSE centroid(SumV(vals, mus, 1), SumU(vals, mus, 1))

defuzzify_lvar(self, m, cvar, lvar) ==
    IF lvar \notin Names(self.flvars) THEN Raised("KeyError")
    ELSE defuzzify_sets(Entry(self.flvars, lvar).labels, m.flsets[cvar].mus)

defuzzify_var(self, m, cvar) ==
    IF cvar \notin DOMAIN m.flsets THEN Raised("KeyError")
    ELSE defuzzify_lvar(self, m, cvar, m.flsets[cvar].name)

\* self.output[cvar] = val, unless val is None
assign_output(m, cvar, val) ==
    IF IsRaised(val) THEN Raise(m, val.kind)
    ELSE IF IsNone(val) THEN m
    ELSE [m EXCEPT !.output = DPut(@, cvar, val.v)]

\* defuzzify: for cvar in self.output, in the dict's order
RECURSIVE defuzzify_from(_, _, _)
defuzzify_from(self, m, k) ==
    IF k > Len(m.output) \/ m.err # "ok" THEN m
    ELSE defuzzify_from(self,
             assign_output(m, m.output[k][1], defuzzify_var(self, m, m.output[k][1])),
             k + 1)

defuzzify(self, m) ==
    IF m.err # "ok" THEN m ELSE defuzzify_from(self, Step(m, "defuzzify"), 1)

\* update_state of the class: GoToTarget stores the bearing phi (degrees) and
\* the distance rho of the target as seen from state['mypose']; the external
\* state is given by the phi and rho that global_to_local, atan2 and sqrt
\* yield for its pose.  The Lab5 variants' update_state is `pass`.
update_state(self, m, ext) ==
    IF m.err # "ok" THEN m
    ELSE IF self.update = "GoToTarget"
    THEN [m EXCEPT !.state = Put(Put(@, "phi", ext.phi), "rho", ext.rho),
                   !.trace = Append(@, "update_state")]
    ELSE Step(m, "update_state")

\* return self.eval_goal()
return_goal(m, goal) ==
    IF m.err # "ok" THEN m
    ELSE IF IsVal(goal) THEN [m EXCEPT !.result = goal.v, !.trace = Append(@, "eval_goal")]
    ELSE [m EXCEPT !.err = goal.kind, !.trace = Append(@, "eval_goal")]

run_goal(self, m) == return_goal(m, eval_goal(self, m))

\* (a faulty variant: the goal evaluated against the truth values the cycle
\* found, not those it computed)
run_stale_goal(self, m, ext) ==
    return_goal(
      defuzzify(self,
        eval_frules(self,
          set_interpretation(
            eval_fpreds(self,
              update_state(self, m, ext))))),
      eval_goal(self, m))

\* (a faulty variant: the cycle recovers from an error and returns 0)
run_recovering(self, m, ext) ==
    [run_goal(self,
       defuzzify(self,
         eval_frules(self,
           set_interpretation(
             eval_fpreds(self,
               update_state(self, m, ext))))))
     EXCEPT !.err = "ok", !.result = Zero]

\* FController.run: one cycle.  In the result, err is "ok" or the exception
\* that ended the cycle, and result is the value eval_goal returned.
run(self, m, ext) ==
    run_goal(self,
      defuzzify(self,
        eval_frules(self,
          set_interpretation(
            eval_fpreds(self,
              update_state(self, m, ext))))))

\* Behavior.get_vlin / get_vrot: self.output['Vlin'], radians(self.output['Vrot']).
\* A value in radians is kept as the number of degrees it converts, tagged.
radians(deg) == <<"pi/180 *", deg>>

get_vlin(m) == IF DHas(m.output, "Vlin") THEN Val(DGet(m.output, "Vlin")) ELSE Raised("KeyError")
get_vrot(m) == IF DHas(m.output, "Vrot") THEN Val(radians(DGet(m.output, "Vrot"))) ELSE Raised("KeyError")

(***************************************************************************)
(* The program state.                                                      *)
(***************************************************************************)
VARIABLES
    state,      \* FController.state   (class attribute, shared)
    output,     \* FController.output  (class attribute, shared)
    flsets,     \* FController.flsets  (class attribute, shared)
    fpvals,     \* FController.fpvals  (class attribute, shared)
    insts,      \* the live Behavior objects: object -> its class, or NoInst
    tabs,       \* object -> its tables (self.fpreds, self.flvars, self.frules,
                \* self.fgoal) and the number of setup() calls made on it
    ctr,        \* the Lab5 Controller: behavior, achieved, vlin, vrot
    fev,        \* a stand-alone FEval object and the statement given to it
    top,        \* the Lab5 TopLevelLoop: the execute_action call in progress
    mfn,        \* a membership function being built and applied to an input
    loop,       \* the TopLevelLoop.run call of Lab2, Lab3 or Lab4 in progress
    grid,       \* the Lab2 Gridmap: its cells and the sonar model's last support
    htn,        \* the planner's State and the last operator or method applied to it
    last        \* history: the last operation, its outcome and its steps

vars == <<state, output, flsets, fpvals, insts, tabs, ctr, fev, top, mfn, loop, grid, htn, last>>

MaxInst == 2
Inst    == 1..MaxInst
NoInst  == "NoInst"
NoBehavior == 0                  \* Controller.behavior = None

\* External states: the poses, given by the target's bearing and distance
ExtStates == {[phi |-> Rat(e[1], 1), rho |-> Rat(e[2], 1)] : e \in {<<30, 5>>, <<0, 5>>, <<90, 7>>, <<0, 0>>}}

M == [state |-> state, fpvals |-> fpvals, flsets |-> flsets, output |-> output,
      err |-> "ok", trace |-> <<>>, result |-> Zero]

\* The history record of an operation: which (op), on which object (inst),
\* how it ended (err), the pipeline steps it entered (trace), what it returned
\* (result), the fuzzy sets and crisp outputs it found (before) and the
\* operation that preceded it (prev).
NoPrev == [op |-> "none", inst |-> 0, err |-> "ok"]

Op(op, i, m, prev) ==
    [op |-> op, inst |-> i, err |-> m.err, trace |-> m.trace, result |-> m.result,
     before |-> [flsets |-> flsets, output |-> output], prev |-> prev]

Prev == [op |-> last.op, inst |-> last.inst, err |-> last.err]

Store(m) ==
    /\ state'  = m.state
    /\ output' = m.output
    /\ flsets' = m.flsets
    /\ fpvals' = m.fpvals

\* FEval(): debug, fpreds = {}, no statement evaluated yet.  stmt is the
\* statement the caller is about to pass to eval; expr, input and result are
\* self.expr, self.input and the outcome of the last eval call.
FEval(stmt) ==
    [debug |-> 0, fpreds |-> EmptyDict, stmt |-> stmt, done |-> FALSE,
     expr |-> <<>>, input |-> <<>>, result |-> NoneRes]

\* No object: FController's class attributes, no setup() call
NoTables ==
    [fpreds |-> <<>>, flvars |-> <<>>, frules |-> <<>>, fgoal |-> <<>>,
     init |-> FALSE, update |-> "pass", setups |-> 0]

\* No membership function has been built
NoMu ==
    [pc |-> "none", shape |-> "", a |-> Zero, b |-> Zero, c |-> Zero,
     f |-> ramp_up(Zero, Zero), x |-> Zero, y |-> NoneRes]

\* Occupancy(prior): the confidences of a cell, or of a support
Occupancy(prior) == [ukn |-> prior[1], occ |-> prior[2], ept |-> prior[3], cft |-> prior[4]]

\* Sonar_Model.prior
prior == <<One, Zero, Zero, Zero>>

\* Gridmap(pars) before init_grid: self.grid = []; newval is the Occupancy
\* object that support fills, sup the arguments of its last call
NoGrid ==
    [pc |-> "none", cells |-> <<>>, newval |-> Occupancy(prior),
     sup |-> [rho |-> Zero, phi |-> Zero, delta |-> Zero, r |-> Zero], err |-> "ok"]

\* State(): pos, room and connects are empty dicts.  Beside them: the last
\* operator or method applied (op), its argument (arg), what it returned
\* (ret: "state", "plan", "False" or the exception), the dicts it found
\* (before), and for a method the target and the actions of the returned
\* plan not yet applied (plan), pc telling where that stands.
NoState ==
    [pc |-> "none", pos |-> EmptyDict, room |-> EmptyDict, connects |-> <<>>,
     op |-> "", arg |-> "", ret |-> "", plan |-> <<>>,
     before |-> [pos |-> EmptyDict, room |-> EmptyDict, connects |-> <<>>]]

\* No TopLevelLoop.run call has been made.  In a call: the lab whose loop it
\* is, maxsteps, nstep, the control steps executed (steps), the calls of
\* robot_gwy.shutdown_robot (shutdowns) and where the call stands (pc:
\* "while", "done").
NoLoop ==
    [pc |-> "idle", lab |-> "", maxsteps |-> 0, nstep |-> 0, steps |-> 0, shutdowns |-> 0]

\* No execute_action call has been made.  In a call: the action's behavior
\* name, threshold, maxsteps, nsteps, the control cycles that completed
\* (cycles), where the call stands (pc: "loop", "returned", "raised"), what
\* it returned (ret) and whether it returned from the timeout branch.  When
\* the call was made by execute_plan (inplan): the actions of the plan still
\* to execute (plan) and the maxsteps execute_plan was given (planmax); pc
\* "next" is then execute_plan about to call execute_action again.  started
\* and rets are the actions execute_action was called with since the plan
\* began and the values these calls returned, whole the plan as given.
NoCall ==
    [pc |-> "idle", action |-> "", threshold |-> Zero, maxsteps |-> 0, nsteps |-> 0,
     cycles |-> 0, ret |-> FALSE, timeout |-> FALSE,
     inplan |-> FALSE, plan |-> <<>>, planmax |-> 0,
     whole |-> <<>>, started |-> <<>>, rets |-> <<>>]

Init ==
    /\ state  = EmptyDict
    /\ output = <<>>
    /\ flsets = EmptyDict
    /\ fpvals = EmptyDict
    /\ insts  = [i \in Inst |-> NoInst]
    /\ tabs   = [i \in Inst |-> NoTables]
    /\ ctr    = [behavior |-> NoBehavior, achieved |-> Zero, vlin |-> Zero,
                 vrot |-> radians(Zero)]
    /\ last   = Op("init", 0, M, NoPrev)
    /\ fev    = FEval("")
    /\ top    = NoCall
    /\ mfn    = NoMu
    /\ loop   = NoLoop
    /\ grid   = NoGrid
    /\ htn    = NoState

\* Behavior.__init__: super().__init__(); self.setup().  The tables setup()
\* assigns, and the one call of it.
Behavior_init(cls) == Setup(cls) @@ [setups |-> 1]

\* (a faulty variant: a cycle calls setup() again)
run_tables_setup(self) == [self EXCEPT !.setups = @ + 1]

\* The tables of the object after a cycle of FController.run: run and the
\* methods it calls assign none of them and do not call setup()
run_tables(self) == self

\* Behavior.__init__ of class cls: FController.__init__, then setup()
construct(cls, m) ==
    IF Setup(cls).init THEN init_fpreds(Setup(cls), init_flsets(Setup(cls), m)) ELSE m

\* A new Behavior object of class cls is created (outside the Controller)
Construct(i, cls) ==
    /\ i # ctr.behavior
    /\ insts' = [insts EXCEPT ![i] = cls]
    /\ tabs' = [tabs EXCEPT ![i] = Behavior_init(cls)]
    /\ Store(construct(cls, M))
    /\ last' = Op("construct", i, M, Prev)
    /\ UNCHANGED <<ctr, fev, top, mfn, loop, grid, htn>>

\* behavior.run(state, debug) on the object i
RunDone(i, r) ==
    /\ Store(r)
    /\ last' = Op("run", i, r, Prev)

Run(i, ext) ==
    /\ insts[i] # NoInst
    /\ RunDone(i, run(tabs[i], M, ext))
    /\ tabs' = [tabs EXCEPT ![i] = run_tables(@)]
    /\ UNCHANGED <<insts, ctr, fev, top, mfn, loop, grid, htn>>

\* Controller.set_behavior(bname, bparam); bname = "" stands for None
set_behavior(i, bname) ==
    /\ IF bname = ""
       THEN UNCHANGED <<insts, tabs, ctr, state, output, flsets, fpvals>>
       ELSE /\ insts' = [insts EXCEPT ![i] = bname]
            /\ tabs' = [tabs EXCEPT ![i] = Behavior_init(bname)]
            /\ ctr' = [ctr EXCEPT !.behavior = i]
            /\ Store(construct(bname, M))
    /\ last' = Op("set_behavior", i, M, Prev)

SetBehavior(i, bname) ==
    /\ set_behavior(i, bname)
    /\ UNCHANGED <<fev, top, mfn, loop, grid, htn>>

\* Controller.run(state, debug):
\*   self.achieved = self.behavior.run(state, debug)
\*   self.vlin = self.behavior.get_vlin(); self.vrot = self.behavior.get_vrot()
CtrRunDone(r, vlin, vrot) ==
    /\ Store(r)
    /\ IF r.err # "ok"
       THEN /\ ctr' = ctr
            /\ last' = Op("ctr_run", ctr.behavior, r, Prev)
       ELSE IF IsRaised(vlin)
       THEN /\ ctr' = [ctr EXCEPT !.achieved = r.result]
            /\ last' = Op("ctr_run", ctr.behavior, Raise(r, vlin.kind), Prev)
       ELSE IF IsRaised(vrot)
       THEN /\ ctr' = [ctr EXCEPT !.achieved = r.result, !.vlin = vlin.v]
            /\ last' = Op("ctr_run", ctr.behavior, Raise(r, vrot.kind), Prev)
       ELSE /\ ctr' = [ctr EXCEPT !.achieved = r.result, !.vlin = vlin.v, !.vrot = vrot.v]
            /\ last' = Op("ctr_run", ctr.behavior, r, Prev)

CtrRunOn(r) == CtrRunDone(r, get_vlin(r), get_vrot(r))

ctr_run(ext) ==
    /\ UNCHANGED insts
    /\ tabs' = [i \in Inst |-> IF i = ctr.behavior THEN run_tables(tabs[i]) ELSE tabs[i]]
    /\ IF ctr.behavior = NoBehavior
       THEN /\ last' = Op("ctr_run", 0, Raise(M, "AttributeError"), Prev)
            /\ UNCHANGED <<state, output, flsets, fpvals, ctr>>
       ELSE CtrRunOn(run(tabs[ctr.behavior], M, ext))

CtrRun(ext) ==
    /\ ctr_run(ext)
    /\ UNCHANGED <<fev, top, mfn, loop, grid, htn>>

\* Lab3 controller.compute_ctr(state, debug), the global behavior being the
\* object i:
\*   achieved = behavior.run(state, debug)
\*   vlin = behavior.get_vlin(); vrot = behavior.get_vrot()
\*   return (vlin, vrot)
\* ret is the pair returned, NoneRes when the call raised.
compute_ctr_done(i, r, vlin, vrot) ==
    /\ Store(r)
    /\ IF r.err # "ok"
       THEN last' = Op("compute_ctr", i, r, Prev) @@ [ret |-> NoneRes]
       ELSE IF IsRaised(vlin)
       THEN last' = Op("compute_ctr", i, Raise(r, vlin.kind), Prev) @@ [ret |-> NoneRes]
       ELSE IF IsRaised(vrot)
       THEN last' = Op("compute_ctr", i, Raise(r, vrot.kind), Prev) @@ [ret |-> NoneRes]
       ELSE last' = Op("compute_ctr", i, r, Prev) @@ [ret |-> Val(<<vlin.v, vrot.v>>)]

compute_ctr_on(i, r) == compute_ctr_done(i, r, get_vlin(r), get_vrot(r))

ComputeCtr(i, ext) ==
    /\ insts[i] # NoInst
    /\ compute_ctr_on(i, run(tabs[i], M, ext))
    /\ tabs' = [tabs EXCEPT ![i] = run_tables(@)]
    /\ UNCHANGED <<insts, ctr, fev, top, mfn, loop, grid, htn>>

\* A Lab3 program: the library's GoToTarget and one more well-formed
\* behavior, run directly (controller.py's behavior.run)
Engine == {"GoToTarget", "Steer"}

Next ==
    \/ \E i \in Inst, cls \in Engine : Construct(i, cls)
    \/ \E i \in Inst, ext \in ExtStates : Run(i, ext)

Spec == Init /\ [][Next]_vars

\* A Lab5 program: the Controller and its registered variants; a GoToTarget
\* may have been created in the same process
NextCtr ==
    \/ \E i \in Inst : Construct(i, "GoToTarget")
    \/ \E i \in Inst, bname \in Lab5Variants \cup {""} : SetBehavior(i, bname)
    \/ \E ext \in ExtStates : CtrRun(ext)

SpecCtr == Init /\ [][NextCtr]_vars

(***************************************************************************)
(* FController.run(state, debug) with a debug level.  The level only adds  *)
(* prints: print_state after update_state (debug > 0), print_fpreds at the *)
(* start of eval_frules (debug > 0), one line per rule (debug > 0), the    *)
(* sums of defuzzify_var (debug > 2).  The evaluator is the FEval() of     *)
(* FController.__init__, whose own debug stays 0.  A print is a step of    *)
(* the trace; print_fpreds calls eval_fpred again for every predicate.     *)
(***************************************************************************)
DebugLevels == {0, 1, 3}

print_state(m, debug) ==
    IF m.err # "ok" \/ debug <= 0 THEN m ELSE Step(m, "print_state")

\* (a faulty variant: printing the predicates resets their truth values)
print_fpreds_reset(self, m, debug) ==
    IF m.err # "ok" \/ debug <= 0 THEN m
    ELSE init_fpreds(self, Step(m, "print_fpreds"))

print_fpreds(self, m, debug) ==
    IF m.err # "ok" \/ debug <= 0 THEN m
    ELSE IF \E k \in 1..Len(self.fpreds) : self.fpreds[k].var \notin DOMAIN m.state
         THEN Raise(Step(m, "print_fpreds"), "KeyError")
         ELSE Step(m, "print_fpreds")

print_frule(m, debug) ==
    IF m.err # "ok" \/ debug <= 0 THEN m ELSE Step(m, "print_frule")

RECURSIVE eval_frules_debug_from(_, _, _, _)
eval_frules_debug_from(self, m, k, debug) ==
    IF k > Len(self.frules) \/ m.err # "ok" THEN m
    ELSE eval_frules_debug_from(self,
             print_frule(eval_frule(self, Step(m, "eval_frule"), self.frules[k]), debug),
             k + 1, debug)

init_flsets_step(self, m) ==
    IF m.err # "ok" THEN m ELSE init_flsets(self, Step(m, "init_flsets"))

eval_frules_debug(self, m, debug) ==
    eval_frules_debug_from(self, init_flsets_step(self, print_fpreds(self, m, debug)), 1, debug)

print_defuzzify(m, debug) ==
    IF m.err # "ok" \/ debug <= 2 THEN m ELSE Step(m, "print_defuzzify")

run_debug(self, m, ext, debug) ==
    run_goal(self,
      print_defuzzify(
        defuzzify(self,
          eval_frules_debug(self,
            set_interpretation(
              eval_fpreds(self,
                print_state(update_state(self, m, ext), debug))),
            debug)),
        debug))

\* behavior.run(state, debug) on the object i, at the level debug
RunDebugDone(i, r, ext, debug) ==
    /\ Store(r)
    /\ last' = Op("run_debug", i, r, Prev) @@ [debug |-> debug, ext |-> ext, at |-> M]

RunDebug(i, ext, debug) ==
    /\ insts[i] # NoInst
    /\ RunDebugDone(i, run_debug(tabs[i], M, ext, debug), ext, debug)
    /\ tabs' = [tabs EXCEPT ![i] = run_tables(@)]
    /\ UNCHANGED <<insts, ctr, fev, top, mfn, loop, grid, htn>>

NextDebug ==
    \/ \E i \in Inst : Construct(i, "GoToTarget")
    \/ \E i \in Inst, ext \in ExtStates, debug \in DebugLevels : RunDebug(i, ext, debug)

SpecDebug == Init /\ [][NextDebug]_vars

(***************************************************************************)
(* Lab5 TopLevelLoop.execute_action(action, threshold, maxsteps).  The     *)
(* call sets the behavior and enters the loop; each iteration of the loop  *)
(* reads the sensors (the external state ext) and is one step of the model.*)
(***************************************************************************)
MaxSteps  == 3
MaxNSteps == 4
Thresholds == {Rat(9, 10)}

\* The plans given to execute_plan: none, one and two actions
Plans == {<<>>, <<"GoTo">>, <<"Cross", "Open">>}

\* The entry of execute_action: nsteps = 0, the loop not yet entered
execute_action(action, threshold, maxsteps, inplan, plan, planmax) ==
    [pc |-> "loop", action |-> action, threshold |-> threshold,
     maxsteps |-> maxsteps, nsteps |-> 0, cycles |-> 0,
     ret |-> FALSE, timeout |-> FALSE,
     inplan |-> inplan, plan |-> plan, planmax |-> planmax,
     whole |-> <<>>, started |-> <<action>>, rets |-> <<>>]

\* nsteps = 0; self.ctr.set_behavior(bname = behavior, bparam = param)
ExecuteAction(i, action, threshold, maxsteps) ==
    /\ top.pc \notin {"loop", "next"}
    /\ set_behavior(i, action)
    /\ top' = execute_action(action, threshold, maxsteps, FALSE, <<>>, 0)
    /\ UNCHANGED <<fev, mfn, loop, grid, htn>>

\* execute_plan(plan, maxsteps), up to the loop of its first action:
\*   for action in plan: result = self.execute_action(action, maxsteps)
\* The second positional parameter of execute_action is threshold, and its
\* maxsteps keeps the default 0.  With an empty plan, return result raises
\* UnboundLocalError.
ExecutePlan(i, plan, maxsteps) ==
    /\ top.pc \notin {"loop", "next"}
    /\ IF plan = <<>>
       THEN /\ top' = [NoCall EXCEPT !.pc = "raised", !.inplan = TRUE, !.planmax = maxsteps]
            /\ UNCHANGED <<state, output, flsets, fpvals, insts, tabs, ctr, last>>
       ELSE /\ set_behavior(i, Head(plan))
            /\ top' = [execute_action(Head(plan), Rat(maxsteps, 1), 0, TRUE, Tail(plan), maxsteps)
                         EXCEPT !.whole = plan]
    /\ UNCHANGED <<fev, mfn, loop, grid, htn>>

\* (a faulty variant: execute_plan returns after its first action)
returned_at_once(t) == "returned"

\* Where a True from execute_action leaves the caller: execute_plan goes on
\* to its next action, if there is one
returned_True(t) ==
    IF t.inplan /\ t.plan # <<>> THEN "next" ELSE "returned"

\* result, done = self.step(); the two tests that follow it.  step() returns
\* (True, achieved) unless Controller.run raised.
after_step(t, err, done) ==
    IF err # "ok" THEN [t EXCEPT !.pc = "raised"]
    ELSE IF RLt(t.threshold, done)
         THEN [t EXCEPT !.cycles = @ + 1, !.ret = TRUE, !.rets = Append(@, TRUE),
                        !.pc = returned_True(t)]
         ELSE [t EXCEPT !.cycles = @ + 1]

\* execute_plan calls execute_action for the next action of the plan
plan_next ==
    /\ \E i \in Inst : set_behavior(i, Head(top.plan))
    /\ top' = [execute_action(Head(top.plan), Rat(top.planmax, 1), 0, TRUE,
                              Tail(top.plan), top.planmax)
                 EXCEPT !.whole = top.whole,
                        !.started = Append(top.started, Head(top.plan)),
                        !.rets = top.rets]

\* nsteps += 1; if (maxsteps > 0 and nsteps < maxsteps): return False
timed_out == top.maxsteps > 0 /\ top.nsteps + 1 < top.maxsteps

time_out ==
    /\ top' = [top EXCEPT !.nsteps = @ + 1, !.pc = "returned",
                          !.ret = FALSE, !.timeout = TRUE, !.rets = Append(@, FALSE)]
    /\ UNCHANGED <<state, output, flsets, fpvals, insts, tabs, ctr, last>>

\* One iteration of the while True loop; in a plan whose action has just
\* returned True, the entry of execute_action for the next action
ExecuteStep(ext) ==
    /\ top.pc \in {"loop", "next"}
    /\ top.nsteps < MaxNSteps
    /\ UNCHANGED <<fev, mfn, loop, grid, htn>>
    /\ IF top.pc = "next" THEN plan_next
       ELSE IF timed_out THEN time_out
       ELSE /\ ctr_run(ext)
            /\ top' = after_step([top EXCEPT !.nsteps = @ + 1], last'.err, ctr'.achieved)

NextTop ==
    \/ \E i \in Inst, action \in Lab5Variants, threshold \in Thresholds, maxsteps \in 0..MaxSteps :
          ExecuteAction(i, action, threshold, maxsteps)
    \/ \E i \in Inst, plan \in Plans, maxsteps \in 0..MaxSteps :
          ExecutePlan(i, plan, maxsteps)
    \/ \E ext \in ExtStates : ExecuteStep(ext)

SpecTop == Init /\ [][NextTop]_vars

(***************************************************************************)
(* The plan loop over a control cycle that completes.  The fcontrol module *)
(* that Lab5's controller imports (it provides trapezoid) is not the       *)
(* Lab3 one; with it a cycle of the Controller is taken to do what the     *)
(* Controller's contract says: it returns an achievement level in [0,1]    *)
(* and caches it.                                                          *)
(***************************************************************************)
Achievements == {Zero, Rat(1, 2), One}

ctr_run_returns(done) ==
    /\ ctr' = [ctr EXCEPT !.achieved = done]
    /\ last' = [Op("ctr_run", ctr.behavior, M, Prev) EXCEPT !.result = done]
    /\ UNCHANGED <<state, output, flsets, fpvals, insts, tabs>>

\* One iteration of execute_action's loop, or execute_plan's next action
PlanStep(done) ==
    /\ top.pc \in {"loop", "next"}
    /\ top.nsteps < MaxNSteps
    /\ UNCHANGED <<fev, mfn, loop, grid, htn>>
    /\ IF top.pc = "next" THEN plan_next
       ELSE IF timed_out THEN time_out
       ELSE /\ ctr_run_returns(done)
            /\ top' = after_step([top EXCEPT !.nsteps = @ + 1], "ok", done)

NextPlan ==
    \/ \E i \in Inst, plan \in Plans, maxsteps \in 0..MaxSteps : ExecutePlan(i, plan, maxsteps)
    \/ \E done \in Achievements : PlanStep(done)

SpecPlan == Init /\ [][NextPlan]_vars

\* A program that replaces its behavior by one with other output variables
NextSwap ==
    \/ \E i \in Inst, cls \in {"GoToTarget", "Pivot"} : Construct(i, cls)
    \/ \E i \in Inst, ext \in ExtStates : Run(i, ext)

SpecSwap == Init /\ [][NextSwap]_vars

\* A program that also holds behaviors with malformed rules
NextDecl ==
    \/ \E i \in Inst, cls \in Malformed \cup {"GoToTarget"} : Construct(i, cls)
    \/ \E i \in Inst, ext \in ExtStates : Run(i, ext)

SpecDecl == Init /\ [][NextDecl]_vars

(***************************************************************************)
(* The evaluator on its own: an FEval object is created, given an          *)
(* interpretation and asked to evaluate one statement.  The statements are *)
(* all token sequences up to MaxTokens tokens, written with blanks between *)
(* all tokens or with no blank next to a parenthesis, and the statements   *)
(* the specification names.                                                *)
(***************************************************************************)
MaxTokens == 3
Vocab     == {"P", "Q", "AND", "OR", "NOT", "(", ")"}
TokenSeqs == UNION {[1..n -> Vocab] : n \in 0..MaxTokens}

IsParen(t) == t \in {"(", ")"}

RECURSIVE Render(_, _)
Render(toks, tight) ==
    IF Len(toks) = 0 THEN <<>>
    ELSE IF Len(toks) = 1 THEN <<toks[1]>>
    ELSE IF tight /\ (IsParen(toks[1]) \/ IsParen(toks[2]))
         THEN <<toks[1]>> \o Render(Tail(toks), tight)
         ELSE <<toks[1], " ">> \o Render(Tail(toks), tight)

NamedStatements ==
    { <<"A", " ", "AND", " ", "B", " ", "OR", " ", "C">>,
      <<"A", " ", "B">>,
      <<"P", " ", "AND", " ", "Q">>,
      <<"P", " ", "OR", " ", "Q">>,
      <<"NOT", " ", "(", "P", ")">>,
      <<"NOT", " ", "P">>,
      <<"(", "P", " ", "AND", " ", "Q">>,
      <<"(", "P", ")", ")">>,
      <<"(", "(", "P", ")", ")">> }

Statements == {Render(t, b) : t \in TokenSeqs, b \in BOOLEAN} \cup NamedStatements

TruthValues == {Rat(0, 1), Rat(3, 10), Rat(1, 1)}

\* Interpretations binding P, Q (and A, B, C)
Interpretations ==
    {[a \in {"P", "Q", "A", "B", "C"} |->
        IF a \in {"P", "A"} THEN p ELSE IF a \in {"Q", "B"} THEN q ELSE r] :
     p \in TruthValues, q \in TruthValues, r \in TruthValues}
    \cup {[a \in {"P", "A"} |-> p] : p \in TruthValues}

InitEval ==
    /\ state  = EmptyDict
    /\ output = <<>>
    /\ flsets = EmptyDict
    /\ fpvals = EmptyDict
    /\ insts  = [i \in Inst |-> NoInst]
    /\ tabs   = [i \in Inst |-> NoTables]
    /\ ctr    = [behavior |-> NoBehavior, achieved |-> Zero, vlin |-> Zero,
                 vrot |-> radians(Zero)]
    /\ last   = Op("init", 0, M, NoPrev)
    /\ top    = NoCall
    /\ mfn    = NoMu
    /\ loop   = NoLoop
    /\ grid   = NoGrid
    /\ htn    = NoState
    /\ fev \in {FEval(stmt) : stmt \in Statements}

\* FEval.set_interpretation(dict)
SetInterpretation(dict) ==
    /\ ~fev.done
    /\ fev' = [fev EXCEPT !.fpreds = dict]
    /\ UNCHANGED <<state, output, flsets, fpvals, insts, tabs, ctr, top, mfn, loop, grid, htn, last>>

\* FEval.eval(stmt)
EvalDone(r) ==
    fev' = [fev EXCEPT !.done = TRUE, !.expr = fev.stmt, !.input = r.input, !.result = r.res]

Eval ==
    /\ ~fev.done
    /\ EvalDone(eval(fev, fev.stmt))
    /\ UNCHANGED <<state, output, flsets, fpvals, insts, tabs, ctr, top, mfn, loop, grid, htn, last>>

NextEval ==
    \/ \E dict \in Interpretations : SetInterpretation(dict)
    \/ Eval

SpecEval == InitEval /\ [][NextEval]_vars

\* A program whose cycles can fail: behaviors whose rules or goal raise,
\* run directly, through compute_ctr and through the Lab5 Controller
Failing == {"Veer", "Lurch"}

\* two of the poses: the target to the left, and the robot on the target
PropStates == {e \in ExtStates : e.phi = Rat(30, 1) \/ e.rho = Rat(0, 1)}

NextProp ==
    \/ \E i \in Inst, cls \in Failing \cup {"GoToTarget"} : Construct(i, cls)
    \/ \E i \in Inst : SetBehavior(i, "GoTo")
    \/ \E i \in Inst, ext \in PropStates : Run(i, ext)
    \/ \E i \in Inst, ext \in PropStates : ComputeCtr(i, ext)
    \/ \E ext \in PropStates : CtrRun(ext)

SpecProp == Init /\ [][NextProp]_vars

(***************************************************************************)
(* The membership-function builders on their own: one is called with       *)
(* parameters from MuParams (equal and unequal, in and out of order), and  *)
(* the function it returns is applied to an input from MuInputs (below,    *)
(* at, between and above the parameters).                                  *)
(***************************************************************************)
MuParams == {Rat(0, 1), Rat(1, 1), Rat(2, 1)}
MuInputs == {Rat(-1, 1), Rat(0, 1), Rat(1, 2), Rat(1, 1), Rat(3, 2), Rat(2, 1), Rat(3, 1)}
Shapes   == {"ramp_up", "ramp_down", "triangle"}

BuildMuDone(shape, a, b, c, r) ==
    mfn' = [pc |-> IF r.kind = "val" THEN "built" ELSE "raised", shape |-> shape,
            a |-> a, b |-> b, c |-> c, f |-> r.f, x |-> Zero, y |-> NoneRes]

\* ramp_up(a, b), ramp_down(a, b) or triangle(a, b, c); the ramps take no c
BuildMu(shape, a, b, c) ==
    /\ mfn.pc = "none"
    /\ shape = "triangle" \/ c = b
    /\ BuildMuDone(shape, a, b, c, build(shape, a, b, c))
    /\ UNCHANGED <<state, output, flsets, fpvals, insts, tabs, ctr, fev, top, loop, grid, htn, last>>

\* mu(x) on the function that was built
ApplyMu(x) ==
    /\ mfn.pc = "built"
    /\ mfn' = [mfn EXCEPT !.pc = "applied", !.x = x, !.y = mu_call(mfn.f, x)]
    /\ UNCHANGED <<state, output, flsets, fpvals, insts, tabs, ctr, fev, top, loop, grid, htn, last>>

NextMu ==
    \/ \E shape \in Shapes, a \in MuParams, b \in MuParams, c \in MuParams : BuildMu(shape, a, b, c)
    \/ \E x \in MuInputs : ApplyMu(x)

SpecMu == Init /\ [][NextMu]_vars

(***************************************************************************)
(* Lab5: the map (robot_map.py), the planner State that                    *)
(* TopLevelLoop.get_state fills from it, and the HTN operators and methods *)
(* of htn_domain.py.  pos['box1'..'box3'], which get_state reads from the  *)
(* robot gateway, and the doors' status are left out: no operator or       *)
(* method reads them.                                                      *)
(***************************************************************************)
geometry ==
    << <<"Room1", <<Rat(-11, 1), Rat(-3, 2), Rat(12, 1), Rat(8, 1)>> >>,
       <<"Room2", <<Rat(-11, 1), Rat(-19, 2), Rat(8, 1), Rat(8, 1)>> >>,
       <<"Room3", <<Rat(-3, 1), Rat(-19, 2), Rat(4, 1), Rat(8, 1)>> >>,
       <<"Room4", <<Rat(1, 1), Rat(-19, 2), Rat(10, 1), Rat(16, 1)>> >> >>

topology ==
    << <<"Room1", <<"bed1", "wardrobe1", "D2", "D3">> >>,
       <<"Room2", <<"fridge1", "sink1", "stove1", "D4">> >>,
       <<"Room3", <<"entrance", "D1", "D3", "D4">> >>,
       <<"Room4", <<"table1", "table2", "table3", "D1", "D2">> >> >>

\* (x, y, radius) of each object; the third number of the map's entries, the
\* orientation, is not read
locations ==
    << <<"table1",    <<Rat(5, 1), Rat(0, 1), Rat(4, 5)>> >>,
       <<"table2",    <<Rat(5, 1), Rat(11, 2), Rat(6, 5)>> >>,
       <<"table3",    <<Rat(5, 1), Rat(-5, 1), Rat(8, 5)>> >>,
       <<"bed1",      <<Rat(-19, 2), Rat(3, 2), Rat(8, 5)>> >>,
       <<"fridge1",   <<Rat(-7, 1), Rat(-9, 1), Rat(6, 5)>> >>,
       <<"sink1",     <<Rat(-52, 5), Rat(-5, 1), Rat(1, 1)>> >>,
       <<"stove1",    <<Rat(-7, 1), Rat(-23, 10), Rat(4, 5)>> >>,
       <<"wardrobe1", <<Rat(-8, 1), Rat(144, 25), Rat(11, 5)>> >>,
       <<"entrance",  <<Rat(-1, 1), Rat(-8, 1), Rat(0, 1)>> >>,
       <<"D1",        <<Rat(1, 1), Rat(-27, 5), Rat(2, 5)>> >>,
       <<"D2",        <<Rat(1, 1), Rat(13, 5), Rat(2, 5)>> >>,
       <<"D3",        <<Rat(-6, 5), Rat(-6, 5), Rat(2, 5)>> >>,
       <<"D4",        <<Rat(-3, 1), Rat(-27, 5), Rat(2, 5)>> >> >>

startpose == <<Rat(3, 1), Rat(-2, 1)>>

\* The first and the last index at which a loop over a list meets a
\* condition, S being the non-empty set of the indices that meet it
First(S) == CHOOSE n \in S : \A m \in S : n <= m
Last(S)  == CHOOSE n \in S : \A m \in S : m <= n

\* WorldMap.find_room: the first room whose bounding box holds pos, or None
in_bbox(p, bbox) ==
    /\ ~(RLt(p[1], bbox[1]) \/ RLt(RAdd(bbox[1], bbox[3]), p[1]))
    /\ ~(RLt(p[2], bbox[2]) \/ RLt(RAdd(bbox[2], bbox[4]), p[2]))

find_room_in(holding) ==
    IF holding = {} THEN "None" ELSE geometry[First(holding)][1]

find_room(p) == find_room_in({k \in 1..Len(geometry) : in_bbox(p, geometry[k][2])})

\* WorldMap.find_location: the first object with sqrt(dx*dx + dy*dy) below
\* its radius + 1.0, or 'openspace'.  Both sides are non-negative, and the
\* comparison is made on their squares.
Square(q) == RMul(q, q)

close_to(p, loc) ==
    RLt(RAdd(Square(RSub(p[1], loc[1])), Square(RSub(p[2], loc[2]))),
        Square(RAdd(loc[3], One)))

find_location_in(close) ==
    IF close = {} THEN "openspace" ELSE locations[First(close)][1]

find_location(p) ==
    find_location_in({k \in 1..Len(locations) : close_to(p, locations[k][2])})

\* get_state, the doors: for room1, for room2 # room1, for object1 in room1,
\* for object2 in room2: if object1 == object2: connects[object1] = (room1, room2).
\* An assignment is numbered by the rooms (i, j) and the place k of object1
\* in room1's list, in the order of the loops; the dict keeps a key at the
\* place of its first assignment with the value of its last one.
MaxObjects == 5

assigned_at(i, j, k) == ((i - 1) * Len(topology) + (j - 1)) * MaxObjects + k

assignments ==
    {a \in (1..Len(topology)) \X (1..Len(topology)) \X (1..MaxObjects) :
        /\ a[1] # a[2]
        /\ a[3] <= Len(topology[a[1]][2])
        /\ topology[a[1]][2][a[3]] \in Range(topology[a[2]][2])}

assigned(a) == topology[a[1]][2][a[3]]

times_of(door) == {assigned_at(a[1], a[2], a[3]) : a \in {e \in assignments : assigned(e) = door}}

last_of(door) ==
    CHOOSE a \in assignments :
        assigned(a) = door /\ assigned_at(a[1], a[2], a[3]) = Last(times_of(door))

doors_found == {assigned(a) : a \in assignments}

connects_found ==
    [n \in 1..Cardinality(doors_found) |->
        LET door == CHOOSE d1 \in doors_found :
                       Cardinality({d2 \in doors_found :
                                       First(times_of(d2)) < First(times_of(d1))}) = n - 1
        IN  <<door, <<topology[last_of(door)[1]][1], topology[last_of(door)[2]][1]>>>>]

\* get_state, the rooms of the objects that are not doors: the last room that
\* lists the object
rooms_found ==
    [object \in UNION {Range(topology[i][2]) : i \in 1..Len(topology)} \ doors_found |->
        topology[Last({i \in 1..Len(topology) : object \in Range(topology[i][2])})][1]]

\* TopLevelLoop.get_state(state) with self.mypose = p; state.door and the
\* positions of the boxes, which no operator or method of navigate_to reads,
\* are left out
get_state(p) ==
    [pos      |-> Put(EmptyDict, "me", find_location(p)),
     room     |-> Put(rooms_found, "me", find_room(p)),
     connects |-> connects_found]

\* The outcome of an operator: the state it returns, False, or an exception
Returned(kind, st) == [kind |-> kind, st |-> st]

\* def GoTo (state, target)
GoTo(st, target) ==
    Returned("state", [st EXCEPT !.pos = Put(@, "me", target)])

\* (a faulty variant: Cross does not test where the robot is)
Cross_anywhere(st, door) ==
    IF ~DHas(st.connects, door) \/ "me" \notin DOMAIN st.room THEN Returned("KeyError", st)
    ELSE IF st.room["me"] = DGet(st.connects, door)[1]
    THEN Returned("state", [st EXCEPT !.room = Put(@, "me", DGet(st.connects, door)[2])])
    ELSE IF st.room["me"] = DGet(st.connects, door)[2]
    THEN Returned("state", [st EXCEPT !.room = Put(@, "me", DGet(st.connects, door)[1])])
    ELSE Returned("False", st)

\* def Cross (state, door)
Cross(st, door) ==
    IF "me" \notin DOMAIN st.pos THEN Returned("KeyError", st)
    ELSE IF st.pos["me"] # door THEN Returned("False", st)
    ELSE IF ~DHas(st.connects, door) \/ "me" \notin DOMAIN st.room THEN Returned("KeyError", st)
    ELSE IF st.room["me"] = DGet(st.connects, door)[1]
    THEN Returned("state", [st EXCEPT !.room = Put(@, "me", DGet(st.connects, door)[2])])
    ELSE IF st.room["me"] = DGet(st.connects, door)[2]
    THEN Returned("state", [st EXCEPT !.room = Put(@, "me", DGet(st.connects, door)[1])])
    ELSE Returned("False", st)

\* The declared operators, by name
operator(name, st, arg) ==
    IF name = "GoTo" THEN GoTo(st, arg) ELSE Cross(st, arg)

\* The outcome of a method: the sub-plan it returns, False, or an exception
Planned(kind, plan) == [kind |-> kind, plan |-> plan]

move_in_place(st, target) ==
    IF "me" \notin DOMAIN st.pos THEN Planned("KeyError", <<>>)
    ELSE IF st.pos["me"] = target THEN Planned("plan", <<>>)
    ELSE Planned("False", <<>>)

move_in_room(st, target) ==
    IF "me" \notin DOMAIN st.room \/ target \notin DOMAIN st.room THEN Planned("KeyError", <<>>)
    ELSE IF st.room["me"] = st.room[target] THEN Planned("plan", << <<"GoTo", target>> >>)
    ELSE Planned("False", <<>>)

\* doors_between: the doors connecting room1 and room2, in the order of
\* state.connects
RECURSIVE doors_between_from(_, _, _, _)
doors_between_from(st, room1, room2, k) ==
    IF k > Len(st.connects) THEN <<>>
    ELSE LET d == st.connects[k] IN
         IF (d[2][1] = room1 /\ d[2][2] = room2) \/ (d[2][1] = room2 /\ d[2][2] = room1)
         THEN <<d[1]>> \o doors_between_from(st, room1, room2, k + 1)
         ELSE doors_between_from(st, room1, room2, k + 1)

doors_between(st, room1, room2) == doors_between_from(st, room1, room2, 1)

move_across_with(target, doors) ==
    IF doors = <<>> THEN Planned("False", <<>>)
    ELSE Planned("plan", << <<"GoTo", doors[1]>>, <<"Cross", doors[1]>>, <<"GoTo", target>> >>)

move_across_rooms(st, target) ==
    IF "me" \notin DOMAIN st.room \/ target \notin DOMAIN st.room THEN Planned("KeyError", <<>>)
    ELSE IF st.room["me"] = st.room[target] THEN Planned("False", <<>>)
    ELSE move_across_with(target, doors_between(st, st.room["me"], st.room[target]))

\* The methods declared for navigate_to, by name
method(name, st, target) ==
    IF name = "move_in_place" THEN move_in_place(st, target)
    ELSE IF name = "move_in_room" THEN move_in_room(st, target)
    ELSE move_across_rooms(st, target)

\* The robot's poses (x, y) when the state is filled: the map's start pose,
\* beside table1, at the door D1, in Room1 close to the stove of Room2, and
\* outside every room
Poses ==
    {startpose, <<Rat(5, 1), Rat(1, 1)>>, <<Rat(1, 1), Rat(-27, 5)>>,
     <<Rat(-7, 1), Rat(-1, 1)>>, <<Rat(20, 1), Rat(20, 1)>>}

Doors   == {"D1", "D2", "D3", "D4"}
Targets == {"table1", "bed1", "stove1", "entrance", "D1"}
Methods == {"move_in_place", "move_in_room", "move_across_rooms"}

Dicts(h) == [pos |-> h.pos, room |-> h.room, connects |-> h.connects]

\* state = State(); self.get_state(state)
GetState(p) ==
    /\ htn.pc = "none"
    /\ htn' = [NoState EXCEPT !.pc = "state", !.pos = get_state(p).pos,
                              !.room = get_state(p).room, !.connects = get_state(p).connects]
    /\ UNCHANGED <<state, output, flsets, fpvals, insts, tabs, ctr, fev, top, mfn, loop, grid, last>>

\* An operator applied to the state
ApplyDone(name, arg, r) ==
    htn' = [htn EXCEPT !.pos = r.st.pos, !.room = r.st.room, !.connects = r.st.connects,
                       !.op = name, !.arg = arg, !.ret = r.kind, !.before = Dicts(htn),
                       !.pc = "state", !.plan = <<>>]

Apply(name, arg) ==
    /\ htn.pc \in {"state", "done", "failed"}
    /\ ApplyDone(name, arg, operator(name, Dicts(htn), arg))
    /\ UNCHANGED <<state, output, flsets, fpvals, insts, tabs, ctr, fev, top, mfn, loop, grid, last>>

\* A method of navigate_to applied to the state: its sub-plan is kept to be
\* applied action by action
DecomposeDone(name, target, r) ==
    htn' = [htn EXCEPT !.op = name, !.arg = target, !.ret = r.kind, !.before = Dicts(htn),
                       !.plan = r.plan,
                       !.pc = IF r.kind # "plan" THEN "state"
                              ELSE IF r.plan = <<>> THEN "done" ELSE "plan"]

Decompose(name, target) ==
    /\ htn.pc \in {"state", "done", "failed"}
    /\ DecomposeDone(name, target, method(name, Dicts(htn), target))
    /\ UNCHANGED <<state, output, flsets, fpvals, insts, tabs, ctr, fev, top, mfn, loop, grid, last>>

\* The next action of the sub-plan applied through its operator
PlanApplyDone(r) ==
    htn' = [htn EXCEPT !.pos = r.st.pos, !.room = r.st.room, !.connects = r.st.connects,
                       !.plan = Tail(@),
                       !.pc = IF r.kind # "state" THEN "failed"
                              ELSE IF Len(htn.plan) = 1 THEN "done" ELSE "plan"]

PlanApply ==
    /\ htn.pc = "plan"
    /\ PlanApplyDone(operator(htn.plan[1][1], Dicts(htn), htn.plan[1][2]))
    /\ UNCHANGED <<state, output, flsets, fpvals, insts, tabs, ctr, fev, top, mfn, loop, grid, last>>

NextHtn ==
    \/ \E p \in Poses : GetState(p)
    \/ \E target \in Targets : Apply("GoTo", target)
    \/ \E door \in Doors : Apply("Cross", door)
    \/ \E name \in Methods, target \in Targets : Decompose(name, target)
    \/ PlanApply

SpecHtn == Init /\ [][NextHtn]_vars

(***************************************************************************)
(* Lab2 observer: the sonar model.  support(rho, phi, delta, r, result)    *)
(* assigns all four fields of result in each of its branches.              *)
(***************************************************************************)
RAbs(x) == IF RLt(x, Zero) THEN RSub(Zero, x) ELSE x

occ_support == Occupancy(<<Zero, One, Zero, Zero>>)
ept_support == Occupancy(<<Zero, Zero, One, Zero>>)
ukn_support == Occupancy(<<One, Zero, Zero, Zero>>)

support(rho, phi, delta, r) ==
    IF RLeq(phi, RDiv(delta, Rat(2, 1))) /\ RLeq(RSub(Zero, phi), RDiv(delta, Rat(2, 1)))
    THEN IF RLeq(RAbs(RSub(rho, r)), Rat(2, 100)) THEN occ_support
         ELSE IF RLt(r, rho) THEN ept_support
         ELSE ukn_support
    ELSE ukn_support

\* The cells' distances, the bearings and apertures (in radians) and the
\* readings support is called with
SonarRhos   == {Rat(1, 2), Rat(1, 1), Rat(101, 100), Rat(3, 2), Rat(2, 1)}
SonarPhis   == {Rat(-1, 1), Rat(-1, 5), Rat(0, 1), Rat(1, 5), Rat(1, 1)}
SonarDeltas == {Rat(2, 5), Rat(1, 1)}
SonarRanges == {Rat(1, 1), Rat(3, 2)}

Support(rho, phi, delta, r) ==
    /\ grid' = [grid EXCEPT !.pc = "support", !.newval = support(rho, phi, delta, r),
                            !.sup = [rho |-> rho, phi |-> phi, delta |-> delta, r |-> r]]
    /\ UNCHANGED <<state, output, flsets, fpvals, insts, tabs, ctr, fev, top, mfn, loop, htn, last>>

NextSonar ==
    \E rho \in SonarRhos, phi \in SonarPhis, delta \in SonarDeltas, r \in SonarRanges :
        Support(rho, phi, delta, r)

SpecSonar == Init /\ [][NextSonar]_vars

(***************************************************************************)
(* Lab2 observer: the grid.  Gridmap(pars) ; init_grid(offset, size) with  *)
(* a grid of GridRows x GridCols cells at offset (0, 0) and a sonar cutoff *)
(* of one cell size, so that the update area of a reading is 3 x 3 cells.  *)
(* Angles are kept in degrees: every angle the code compares (alpha, sth,  *)
(* pi, the aperture) is the code's angle times 180/pi.                     *)
(***************************************************************************)
GridRows == 3
GridCols == 3
xoff     == Zero
yoff     == Zero
cellsize == Rat(1, 10)
maxrange == Rat(1, 10)
sdelta   == Rat(25, 1)
math_pi  == Rat(180, 1)

\* (a faulty variant: the new support replaces the cell's values)
fuse_overwrite(old, new) == [new EXCEPT !.cft = Zero]

\* Sonar_Model.fuse(old, new)
fuse(old, new) ==
    [ukn |-> RMin(old.ukn, new.ukn),
     occ |-> IF RLt(RMax(old.occ, new.occ), Zero) THEN Zero ELSE RMax(old.occ, new.occ),
     ept |-> IF RLt(RMax(old.ept, new.ept), Zero) THEN Zero ELSE RMax(old.ept, new.ept),
     cft |-> Zero]

\* int(x) of a float: truncation towards zero
int(x) == IF x[1] >= 0 THEN x[1] \div x[2] ELSE -((-x[1]) \div x[2])

\* Gridmap.x_to_col / y_to_row: the index, or the failed assertion
x_to_col(x) ==
    IF int(RDiv(RSub(x, xoff), cellsize)) >= 0 /\ int(RDiv(RSub(x, xoff), cellsize)) < GridCols
    THEN Val(int(RDiv(RSub(x, xoff), cellsize))) ELSE Raised("AssertionError")

y_to_row(y) ==
    IF int(RDiv(RSub(y, yoff), cellsize)) >= 0 /\ int(RDiv(RSub(y, yoff), cellsize)) < GridRows
    THEN Val(int(RDiv(RSub(y, yoff), cellsize))) ELSE Raised("AssertionError")

\* init_grid: every cell at the prior
init_grid == [c \in (0..(GridRows - 1)) \X (0..(GridCols - 1)) |-> Occupancy(prior)]

\* math.sqrt, to three decimals (truncated), of a number up to 1
math_sqrt(q) ==
    Rat(CHOOSE k \in 0..1000 :
            k * k <= (q[1] * 1000000) \div q[2] /\ (q[1] * 1000000) \div q[2] < (k + 1) * (k + 1),
        1000)

\* math.atan2(dy, dx) in degrees for the offsets of a 3 x 3 table, where
\* |dy| / |dx| is 1, 1/3 or 3: 45, 18.435 and 71.565 degrees from the x axis
from_x_axis(dy, dx) ==
    IF RAbs(dy) = RAbs(dx) THEN Rat(45, 1)
    ELSE IF RLt(RAbs(dy), RAbs(dx)) THEN Rat(18435, 1000) ELSE Rat(71565, 1000)

math_atan2(dy, dx) ==
    IF RLt(Zero, dx)
    THEN (IF RLt(dy, Zero) THEN RSub(Zero, from_x_axis(dy, dx)) ELSE from_x_axis(dy, dx))
    ELSE (IF RLt(dy, Zero) THEN RSub(from_x_axis(dy, dx), Rat(180, 1))
          ELSE RSub(Rat(180, 1), from_x_axis(dy, dx)))

\* math.sin / math.cos of a heading that is a multiple of 90 degrees
math_sin(th) == IF th = Rat(90, 1) THEN One ELSE IF th = Rat(-90, 1) THEN Rat(-1, 1) ELSE Zero
math_cos(th) == IF th = Zero THEN One ELSE IF th = Rat(180, 1) THEN Rat(-1, 1) ELSE Zero

\* init_grid: the lookup table of (rho, alpha); lusize/2 is a float division
scansize == int(RDiv(maxrange, cellsize))
lusize   == scansize * 2 + 1
lu_d(j)  == RMul(RAdd(RSub(Rat(j, 1), Rat(lusize, 2)), One), cellsize)
\* (<<>> @@ f is f, as a table computed once)
lutable  ==
    <<>> @@ [e \in (0..(lusize - 1)) \X (0..(lusize - 1)) |->
        <<math_sqrt(RAdd(Square(lu_d(e[2])), Square(lu_d(e[1])))),
          math_atan2(lu_d(e[1]), lu_d(e[2]))>>]

\* update_grid: phi normalized
normalize(phi) ==
    IF RLt(math_pi, phi) THEN RSub(phi, RMul(Rat(2, 1), math_pi))
    ELSE IF RLt(phi, RSub(Zero, math_pi)) THEN RAdd(phi, RMul(Rat(2, 1), math_pi))
    ELSE phi

\* update_grid, the body of the two inner loops for the cell (ci, cj) of the
\* grid: the cell is in the update area at (i, j), within maxrange, and is
\* fused with its support; or it is left as it is
scan_cell(cells, ci, cj, i, j, sth, srange) ==
    IF i < 0 \/ i > scansize * 2 \/ j < 0 \/ j > scansize * 2 THEN cells[<<ci, cj>>]
    ELSE IF RLt(maxrange, lutable[<<i, j>>][1]) THEN cells[<<ci, cj>>]
    ELSE fuse(cells[<<ci, cj>>],
              support(lutable[<<i, j>>][1], normalize(RSub(lutable[<<i, j>>][2], sth)),
                      sdelta, srange))

\* update_grid, the two inner loops for a sonar at (row, col) heading sth
scan_area(cells, row, col, sth, srange) ==
    [c \in DOMAIN cells |->
        scan_cell(cells, c[1], c[2], c[1] - (row - scansize), c[2] - (col - scansize), sth, srange)]

\* update_grid, the pose of the sonar s in the global frame
sonar_x(s, mypose) ==
    RSub(RAdd(mypose[1], RMul(s[1][1], math_cos(mypose[3]))), RMul(s[1][2], math_sin(mypose[3])))
sonar_y(s, mypose) ==
    RAdd(RAdd(mypose[2], RMul(s[1][1], math_sin(mypose[3]))), RMul(s[1][2], math_cos(mypose[3])))
sonar_th(s, mypose) == RAdd(mypose[3], s[1][3])

\* update_grid(sdata, mypose) from the k-th reading on: the cells, and the
\* assertion that failed if the sonar is out of the grid
RECURSIVE update_grid(_, _, _, _)
update_grid(cells, sdata, mypose, k) ==
    IF k > Len(sdata) THEN [cells |-> cells, err |-> "ok"]
    ELSE IF RLt(maxrange, sdata[k][2]) THEN update_grid(cells, sdata, mypose, k + 1)
    ELSE IF ~IsVal(y_to_row(sonar_y(sdata[k], mypose))) \/ ~IsVal(x_to_col(sonar_x(sdata[k], mypose)))
    THEN [cells |-> cells, err |-> "AssertionError"]
    ELSE update_grid(scan_area(cells, y_to_row(sonar_y(sdata[k], mypose)).v,
                               x_to_col(sonar_x(sdata[k], mypose)).v,
                               sonar_th(sdata[k], mypose), sdata[k][2]),
                     sdata, mypose, k + 1)

\* The robot's poses (x, y, th), the last two out of the grid; the sonars'
\* poses on the robot; the ranges read, the last beyond the cutoff
GridPoses ==
    { <<Rat(15, 100), Rat(15, 100), Zero>>, <<Rat(5, 100), Rat(15, 100), Rat(90, 1)>>,
      <<Rat(25, 100), Rat(5, 100), Zero>>, <<Rat(1, 2), Rat(15, 100), Zero>>,
      <<Rat(15, 100), Rat(-1, 5), Zero>> }
SonarPoses ==
    { <<Zero, Zero, Rat(45, 1)>>, <<Zero, Zero, Rat(-135, 1)>>, <<Rat(1, 10), Zero, Rat(30, 1)>> }
GridRanges  == {Rat(2, 100), Rat(7, 100), Rat(1, 10), Rat(1, 2)}
MaxReadings == 2
Readings    == SonarPoses \X GridRanges
SonarData   == UNION {[1..n -> Readings] : n \in 1..MaxReadings}

\* self.gridmap = observer.Gridmap(pars) ; self.gridmap.init_grid()
InitGrid ==
    /\ grid.pc = "none"
    /\ grid' = [grid EXCEPT !.pc = "grid", !.cells = init_grid]
    /\ UNCHANGED <<state, output, flsets, fpvals, insts, tabs, ctr, fev, top, mfn, loop, htn, last>>

\* self.gridmap.update_grid(sdata, mypose)
UpdateGridDone(r) ==
    grid' = [grid EXCEPT !.pc = "updated", !.cells = r.cells, !.err = r.err]

UpdateGrid(sdata, mypose) ==
    /\ grid.pc \in {"grid", "updated"}
    /\ UpdateGridDone(update_grid(grid.cells, sdata, mypose, 1))
    /\ UNCHANGED <<state, output, flsets, fpvals, insts, tabs, ctr, fev, top, mfn, loop, htn, last>>

NextGrid ==
    \/ InitGrid
    \/ \E sdata \in SonarData, mypose \in GridPoses : UpdateGrid(sdata, mypose)

SpecGrid == Init /\ [][NextGrid]_vars

(***************************************************************************)
(* TopLevelLoop.run(maxsteps) of Lab2, Lab3 and Lab4.  step() of these     *)
(* labs ends in return True; each call of it is one step of the model.     *)
(*   Lab2:        while self.step():                                       *)
(*                    if (maxsteps == 0 or nstep < maxsteps): nstep += 1   *)
(*                    else: break                                          *)
(*   Lab3, Lab4:  while self.step():                                       *)
(*                    if (maxsteps > 0 and nstep < maxsteps): break        *)
(*                    nstep += 1                                           *)
(* and robot_gwy.shutdown_robot() after the loop.                          *)
(***************************************************************************)
MaxRunSteps  == 8
MaxLoopSteps == 12
Labs == {"Lab2", "Lab3", "Lab4"}

\* nstep = 1; init_robot, init_pose, init_controls
RunLoop(lab, maxsteps) ==
    /\ loop.pc = "idle"
    /\ loop' = [pc |-> "while", lab |-> lab, maxsteps |-> maxsteps, nstep |-> 1,
                steps |-> 0, shutdowns |-> 0]
    /\ UNCHANGED <<state, output, flsets, fpvals, insts, tabs, ctr, fev, top, mfn, grid, htn, last>>

\* The test in the body of the loop: TRUE when it breaks
breaks(lab, maxsteps, nstep) ==
    IF lab = "Lab2" THEN ~(maxsteps = 0 \/ nstep < maxsteps)
    ELSE maxsteps > 0 /\ nstep < maxsteps

\* One iteration: self.step() returns True, then the body; after a break,
\* shutdown_robot()
LoopStep ==
    /\ loop.pc = "while"
    /\ loop.steps < MaxLoopSteps
    /\ loop' = IF breaks(loop.lab, loop.maxsteps, loop.nstep)
               THEN [loop EXCEPT !.steps = @ + 1, !.pc = "done", !.shutdowns = @ + 1]
               ELSE [loop EXCEPT !.steps = @ + 1, !.nstep = @ + 1]
    /\ UNCHANGED <<state, output, flsets, fpvals, insts, tabs, ctr, fev, top, mfn, grid, htn, last>>

NextLoop ==
    \/ \E lab \in Labs, maxsteps \in 0..MaxRunSteps : RunLoop(lab, maxsteps)
    \/ LoopStep

SpecLoop == Init /\ [][NextLoop]_vars

\* The evaluator created in trace mode: FEval(debug = 1)
InitTrace ==
    /\ state  = EmptyDict
    /\ output = <<>>
    /\ flsets = EmptyDict
    /\ fpvals = EmptyDict
    /\ insts  = [i \in Inst |-> NoInst]
    /\ tabs   = [i \in Inst |-> NoTables]
    /\ ctr    = [behavior |-> NoBehavior, achieved |-> Zero, vlin |-> Zero,
                 vrot |-> radians(Zero)]
    /\ last   = Op("init", 0, M, NoPrev)
    /\ top    = NoCall
    /\ mfn    = NoMu
    /\ loop   = NoLoop
    /\ grid   = NoGrid
    /\ htn    = NoState
    /\ fev \in {[FEval(stmt) EXCEPT !.debug = 1] : stmt \in Statements}

SpecTrace == InitTrace /\ [][NextEval]_vars

\* One evaluator used for call after call: set_interpretation and eval in any
\* order.  last keeps the interpretation the latest eval ran under, and the
\* statement, outcome, leftover tokens and interpretation of the eval before.
ReuseStatements == NamedStatements \cup { <<>>, <<"Q">> }

ReuseInterpretations ==
    { EmptyDict,
      [a \in {"P", "A"} |-> Rat(3, 10)],
      [a \in {"P", "Q", "A", "B", "C"} |->
          IF a \in {"P", "A"} THEN Rat(3, 10) ELSE IF a \in {"Q", "B"} THEN One ELSE Zero] }

NoEvals == [evals |-> 0, interp |-> EmptyDict,
            earlier |-> [expr |-> <<>>, input |-> <<>>, result |-> NoneRes, interp |-> EmptyDict]]

Evals == IF "evals" \in DOMAIN last THEN last ELSE NoEvals

Reinterpret(dict) ==
    /\ fev' = [fev EXCEPT !.fpreds = dict]
    /\ UNCHANGED <<state, output, flsets, fpvals, insts, tabs, ctr, top, mfn, loop, grid, htn, last>>

EvalAgainDone(stmt, r) ==
    /\ fev' = [fev EXCEPT !.done = TRUE, !.stmt = stmt, !.expr = stmt, !.input = r.input,
                          !.result = r.res]
    /\ last' = [evals   |-> IF Evals.evals < 2 THEN Evals.evals + 1 ELSE 2,
                interp  |-> fev.fpreds,
                earlier |-> [expr |-> fev.expr, input |-> fev.input, result |-> fev.result,
                             interp |-> Evals.interp]] @@ last

EvalAgain(stmt) ==
    /\ EvalAgainDone(stmt, eval(fev, stmt))
    /\ UNCHANGED <<state, output, flsets, fpvals, insts, tabs, ctr, top, mfn, loop, grid, htn>>

NextReuse ==
    \/ \E dict \in ReuseInterpretations : Reinterpret(dict)
    \/ \E stmt \in ReuseStatements : EvalAgain(stmt)

SpecReuse == Init /\ [][NextReuse]_vars

(***************************************************************************)
(* Properties.                                                             *)
(***************************************************************************)
ClassOf(i)    == insts[i]
OwnCvars(cls) == {Setup(cls).flvars[k].cvar : k \in 1..Len(Setup(cls).flvars)}
Total(mus)    == \A l \in DOMAIN mus : mus[l] = Zero
InUnit(v)     == RLeq(Zero, v) /\ RLeq(v, One)

\* the last operation was a cycle of FController.run that returned
CycleDone == last.op = "run" /\ last.err = "ok"
\* ... and the one before it was a returned cycle of the same object
SecondCycle ==
    CycleDone /\ last.prev.op = "run" /\ last.prev.err = "ok" /\ last.prev.inst = last.inst

\* C1: hold last command.  When a Behavior completes a cycle directly after
\* another completed cycle of its own, every output variable of it whose
\* labels all have activation 0 after rule evaluation keeps the crisp value
\* it had after the previous cycle.
C1_HoldLastCommand ==
    SecondCycle =>
        \A cvar \in OwnCvars(ClassOf(last.inst)) :
            Total(flsets[cvar].mus) => DGet(output, cvar) = DGet(last.before.output, cvar)

\* What the object i reads and writes through self.state, self.fpvals,
\* self.flsets and self.output: no method binds these names on the instance,
\* so they are the class attributes for every i.
SelfDicts(i) == [state |-> state, fpvals |-> fpvals, flsets |-> flsets, output |-> output]

\* C2: behaviors share no mutable state.  Constructing a Behavior or running
\* one cycle of it leaves the input state, the truth values, the fuzzy sets
\* and the crisp outputs of every other live Behavior unchanged.
C2_NoSharedState ==
    [][\A i, j \in Inst :
         (i # j /\ insts[j] # NoInst /\ insts'[j] = insts[j]
            /\ last'.inst = i /\ last'.op \in {"construct", "run"})
         => SelfDicts(j)' = SelfDicts(j)]_vars

\* C4: after Controller.set_behavior(name, params) with name one of GoTo,
\* Cross, Open, Close, every Controller.run completes its cycle, returns an
\* achievement level in [0,1], and leaves in get_vlin() and get_vrot() the
\* crisp outputs the behavior computed in that cycle.
C4_ControllerRunCompletes ==
    (last.op = "ctr_run" /\ ctr.behavior # NoBehavior /\ ClassOf(ctr.behavior) \in Lab5Variants)
    => /\ last.err = "ok"
       /\ InUnit(last.result)
       /\ ctr.achieved = last.result
       /\ ctr.vlin = DGet(output, "Vlin")
       /\ ctr.vrot = radians(DGet(output, "Vrot"))

\* The crisp values of the labels of the linguistic variable behind cvar, for
\* the class that owns the fuzzy set
Crisp(cls, cvar) ==
    LET labels == Entry(Setup(cls).flvars, flsets[cvar].name).labels
    IN  [l \in {labels[k][1] : k \in 1..Len(labels)} |->
            (CHOOSE e \in Range(labels) : e[1] = l)[2]]

\* sum of f[l] * g[l] over the labels in S
RECURSIVE Dot(_, _, _)
Dot(S, f, g) ==
    IF S = {} THEN Zero
    ELSE LET l == CHOOSE x \in S : TRUE
         IN  RAdd(RMul(f[l], g[l]), Dot(S \ {l}, f, g))

Ones(S) == [l \in S |-> One]

\* C6: defuzzification is the weighted centroid.  After a completed cycle,
\* every output variable of the behavior with non-zero total activation has
\* crisp output * sum(activation) = sum(activation * crisp value) over the
\* labels of its linguistic variable; activations (0, 1, 0.3) on crisp values
\* (0, 40, -40) give 28/1.3 = 280/13.
C6_WeightedCentroid ==
    CycleDone =>
        \A cvar \in OwnCvars(ClassOf(last.inst)) :
            LET mus  == flsets[cvar].mus
                vals == Crisp(ClassOf(last.inst), cvar)
                sumu == Dot(DOMAIN mus, mus, Ones(DOMAIN mus))
            IN  /\ DOMAIN vals = DOMAIN mus
                /\ sumu # Zero =>
                     RMul(DGet(output, cvar), sumu) = Dot(DOMAIN mus, mus, vals)
                /\ (mus = [None |-> Rat(0, 1), Left |-> Rat(1, 1), Right |-> Rat(3, 10)]
                      /\ vals = [None |-> Rat(0, 1), Left |-> Rat(40, 1), Right |-> Rat(-40, 1)])
                   => DGet(output, cvar) = Rat(280, 13)

C6_Witness ==
    /\ CycleDone
    /\ DHas(output, "Vrot") /\ "Vrot" \in DOMAIN flsets
    /\ flsets["Vrot"].mus = [None |-> Rat(0, 1), Left |-> Rat(1, 1), Right |-> Rat(3, 10)]
    /\ DGet(output, "Vrot") = Rat(280, 13)

\* The rules of a class whose consequent is the linguistic variable lvar and
\* the label l, and the truth value of a rule's antecedent under the truth
\* values of the cycle
RulesFor(cls, lvar, l) == {r \in Range(Setup(cls).frules) : r.lvar = lvar /\ r.label = l}
Level(r) == eval(fevaluator(M), r.ante).res.v
MaxOf(S) == IF S = {} THEN Zero ELSE CHOOSE v \in S : \A w \in S : RLeq(w, v)

\* The tables of a class with its rules in the order perm
Reordered(cls, perm) ==
    [Setup(cls) EXCEPT !.frules = [k \in 1..Len(Setup(cls).frules) |-> Setup(cls).frules[perm[k]]]]

\* The engine as the cycle found it, with the cycle's truth values
AtRules == [M EXCEPT !.flsets = last.before.flsets, !.output = last.before.output]

\* C7: after rule evaluation the activation of every label of every output
\* variable is the maximum of the antecedent truth values of the rules with
\* that variable and label as consequent (0 when there is none), and
\* evaluating the rules in any other order gives the same fuzzy sets.
C7_MaxAggregation ==
    CycleDone =>
        LET cls == ClassOf(last.inst) IN
        /\ \A k \in 1..Len(Setup(cls).flvars) :
             LET flvar == Setup(cls).flvars[k] IN
             \A l \in DOMAIN flsets[flvar.cvar].mus :
                 flsets[flvar.cvar].mus[l] = MaxOf({Level(r) : r \in RulesFor(cls, flvar.name, l)})
        /\ \A perm \in Permutations(1..Len(Setup(cls).frules)) :
             eval_frules(Reordered(cls, perm), AtRules).flsets = flsets

\* a label that two rules of the class reach with different levels
C7_Witness ==
    /\ CycleDone
    /\ \E r1, r2 \in Range(Setup(ClassOf(last.inst)).frules) :
         /\ r1.lvar = r2.lvar /\ r1.label = r2.label
         /\ RLt(Level(r2), Level(r1))
         /\ RLt(Zero, Level(r2))

Count(tr, name) == Cardinality({k \in 1..Len(tr) : tr[k] = name})

\* The fuzzy sets that rule evaluation builds from the cycle's truth values
\* in an engine that holds no fuzzy sets and no outputs yet
FreshSets(cls) == eval_frules(Setup(cls), [M EXCEPT !.flsets = EmptyDict, !.output = <<>>]).flsets

\* C8: a cycle that reaches rule evaluation resets the fuzzy sets exactly
\* once, before its first rule, and the activations at the end of a completed
\* cycle are those built from zero by this cycle's truth values: nothing of an
\* earlier cycle is carried over.
C8_ResetOncePerCycle ==
    (last.op = "run" /\ Count(last.trace, "set_interpretation") > 0) =>
        /\ Count(last.trace, "init_flsets") = 1
        /\ \A k \in 1..Len(last.trace) :
             last.trace[k] = "eval_frule" => \E j \in 1..(k - 1) : last.trace[j] = "init_flsets"
        /\ CycleDone =>
             \A cvar \in OwnCvars(ClassOf(last.inst)) :
                 flsets[cvar] = FreshSets(ClassOf(last.inst))[cvar]

\* a label active at the end of the previous cycle and at 0 after this one
C8_Witness ==
    /\ SecondCycle
    /\ \E cvar \in OwnCvars(ClassOf(last.inst)) :
         \E l \in DOMAIN flsets[cvar].mus :
            /\ flsets[cvar].mus[l] = Zero
            /\ RLt(Zero, last.before.flsets[cvar].mus[l])

\* The predicate names a class's rules and goal mention, and those among them
\* that the class does not declare
Atoms(stmt)     == {t \in Range(Tokenize(stmt)) : is_atom(t)}
Mentioned(cls)  == UNION {Atoms(r.ante) : r \in Range(Setup(cls).frules)} \cup Atoms(Setup(cls).fgoal)
Undeclared(cls) == Mentioned(cls) \ Names(Setup(cls).fpreds)

\* C9: running a Behavior whose rule antecedent or goal expression names a
\* predicate the Behavior did not declare fails with a lookup error, whatever
\* was constructed and run before.
C9_UndeclaredPredicateFails ==
    (last.op = "run" /\ Undeclared(ClassOf(last.inst)) # {}) => last.err = "LookupError"

LabelsOf(flvar) == {flvar.labels[k][1] : k \in 1..Len(flvar.labels)}

WellFormed(cls) ==
    /\ Undeclared(cls) = {}
    /\ \A r \in Range(Setup(cls).frules) :
         /\ r.lvar \in Names(Setup(cls).flvars)
         /\ r.label \in LabelsOf(Entry(Setup(cls).flvars, r.lvar))

\* C10: a Behavior with a malformed rule reference (undeclared predicate,
\* unknown linguistic variable, label outside the variable's label set) is
\* rejected at construction: no such Behavior object ever exists.
C10_MalformedRejectedAtConstruction ==
    \A i \in Inst : insts[i] # NoInst => WellFormed(insts[i])

\* C3: eval fails whenever tokens remain after the statement has been parsed;
\* in particular "A AND B OR C" and "A B" never return a truth value.
C3_TrailingTokensFail ==
    fev.done =>
        /\ fev.input # <<>> => ~IsVal(fev.result)
        /\ Tokenize(fev.expr) \in {<<"A", "AND", "B", "OR", "C">>, <<"A", "B">>}
             => ~IsVal(fev.result)

\* C5: with P and Q bound to p and q, eval("P AND Q") is the smaller of p and
\* q, eval("P OR Q") the larger, and eval("NOT (P)") is 1 - p.
C5_AndOrNot ==
    (fev.done /\ {"P", "Q"} \subseteq DOMAIN fev.fpreds) =>
        LET pv == fev.fpreds["P"]
            qv == fev.fpreds["Q"]
            v  == fev.result.v
        IN  /\ Tokenize(fev.expr) = <<"P", "AND", "Q">> =>
                 IsVal(fev.result) /\ v \in {pv, qv} /\ RLeq(v, pv) /\ RLeq(v, qv)
            /\ Tokenize(fev.expr) = <<"P", "OR", "Q">> =>
                 IsVal(fev.result) /\ v \in {pv, qv} /\ RLeq(pv, v) /\ RLeq(qv, v)
            /\ Tokenize(fev.expr) = <<"NOT", "(", "P", ")">> =>
                 IsVal(fev.result) /\ RAdd(v, pv) = One

C5_Witness ==
    /\ fev.done
    /\ fev.expr = <<"P", " ", "AND", " ", "Q">>
    /\ {"P", "Q"} \subseteq DOMAIN fev.fpreds
    /\ fev.fpreds["P"] = Rat(3, 10) /\ fev.fpreds["Q"] = Rat(1, 1)
    /\ fev.result = Val(Rat(3, 10))

\* C11: eval returns no truth value (it fails, with a lookup error) whenever
\* the statement contains an atom that is not a key of the interpretation.
C11_UnboundAtomFails ==
    (fev.done /\ \E a \in Atoms(fev.expr) : a \notin DOMAIN fev.fpreds)
        => ~IsVal(fev.result)

\* C12: with P and Q bound, "AND P", "NOT P" and "(P AND Q" each make eval
\* fail with the syntax failure (the assertion of eval).
C12_MalformedStatementsFail ==
    (fev.done /\ {"P", "Q"} \subseteq DOMAIN fev.fpreds
       /\ Tokenize(fev.expr) \in {<<"AND", "P">>, <<"NOT", "P">>, <<"(", "P", "AND", "Q">>})
        => fev.result.kind = "AssertionError"

C12_Witness ==
    /\ fev.done
    /\ {"P", "Q"} \subseteq DOMAIN fev.fpreds
    /\ fev.expr = <<"(", "P", " ", "AND", " ", "Q">>
    /\ fev.input = <<>>
    /\ fev.result.kind = "AssertionError"

\* C13: when the token stream is empty where a term is expected ("", "P AND",
\* "P OR", "()"), eval fails with the same syntax failure as other malformed
\* statements.
C13_EmptyTermIsSyntaxFailure ==
    (fev.done /\ {"P", "Q"} \subseteq DOMAIN fev.fpreds
       /\ Tokenize(fev.expr) \in {<<>>, <<"P", "AND">>, <<"P", "OR">>, <<"(", ")">>})
        => fev.result.kind = "AssertionError"

\* The nesting depth after each token; a statement is balanced when the depth
\* never drops below 0 and ends at 0
RECURSIVE Balanced(_, _)
Balanced(toks, depth) ==
    IF depth < 0 THEN FALSE
    ELSE IF Len(toks) = 0 THEN depth = 0
    ELSE Balanced(Tail(toks),
                  IF Head(toks) = "(" THEN depth + 1
                  ELSE IF Head(toks) = ")" THEN depth - 1 ELSE depth)

\* C14: every statement with unbalanced parentheses, a ')' missing or a ')'
\* surplus, makes eval fail; it never returns a truth value.
C14_UnbalancedParenthesesFail ==
    (fev.done /\ ~Balanced(Tokenize(fev.expr), 0)) => ~IsVal(fev.result)

\* C15: execute_action returns False for timeout only when maxsteps = N > 0
\* and N control cycles have run; with maxsteps = 0 it never times out, and
\* with N > 0 the loop never runs more than N cycles.
C15_TimeoutAfterMaxsteps ==
    /\ (top.pc = "returned" /\ top.timeout) => (top.maxsteps > 0 /\ top.cycles = top.maxsteps)
    /\ (top.pc = "loop" /\ top.maxsteps > 0) => top.cycles < top.maxsteps

\* The steps of one cycle of a Behavior with the tables self, in order
CycleSteps(self) ==
    <<"update_state", "eval_fpreds", "set_interpretation", "init_flsets">>
    \o [k \in 1..Len(self.frules) |-> "eval_frule"]
    \o <<"defuzzify", "eval_goal">>

Fuzzified(self) ==
    \A k \in 1..Len(self.fpreds) :
        /\ self.fpreds[k].name \in DOMAIN fpvals
        /\ self.fpreds[k].var \in DOMAIN state
        /\ fpvals[self.fpreds[k].name] = mu(self.fpreds[k].f, state[self.fpreds[k].var])

\* C16: a cycle of FController.run that returns has performed update_state,
\* fuzzification, rule evaluation, defuzzification and goal evaluation, each
\* once and in this order; every declared predicate holds the membership of
\* the cycle's state, the returned achievement is the value of the goal
\* expression under these same truth values, and it lies in [0,1].
C16_CycleOrderAndGoal ==
    CycleDone =>
        /\ last.trace = CycleSteps(Setup(ClassOf(last.inst)))
        /\ Fuzzified(Setup(ClassOf(last.inst)))
        /\ Val(last.result) = eval([debug |-> 0, fpreds |-> fpvals], Setup(ClassOf(last.inst)).fgoal).res
        /\ InUnit(last.result)

C16_Witness ==
    /\ CycleDone
    /\ ClassOf(last.inst) = "GoToTarget"
    /\ last.prev.op = "run"
    /\ last.result = One
    /\ fpvals["TargetHere"] = One

\* C17: swapping the behavior discards what the previous one left.  The
\* first cycle of a newly created Behavior completes, every fuzzy set it
\* defuzzifies is one of its own linguistic variables, reset in that cycle,
\* and every crisp output it holds is computed from them.
C17_SwapDiscardsActivations ==
    (last.op = "run" /\ last.prev.op = "construct" /\ last.prev.inst = last.inst)
        => /\ last.err = "ok"
           /\ \A k \in 1..Len(output) : output[k][1] \in OwnCvars(ClassOf(last.inst))

\* C18: the set of output variables of every live Behavior is the set of
\* target variables of the linguistic variables it declared in setup.
C18_OutputSetFixed ==
    \A i \in Inst :
        insts[i] # NoInst =>
            {SelfDicts(i).output[k][1] : k \in 1..Len(SelfDicts(i).output)} = OwnCvars(insts[i])

\* C19: with membership functions built by ramp_up, ramp_down and triangle,
\* every predicate truth value and every label activation lies in [0,1] in
\* every reachable state, and so do the firing level of every rule and the
\* achievement level of every cycle that returned.
C19_UnitInterval ==
    /\ \A p \in DOMAIN fpvals : InUnit(fpvals[p])
    /\ \A cvar \in DOMAIN flsets : \A l \in DOMAIN flsets[cvar].mus : InUnit(flsets[cvar].mus[l])
    /\ CycleDone =>
         /\ InUnit(last.result)
         /\ \A r \in Range(Setup(ClassOf(last.inst)).frules) : InUnit(Level(r))

\* a cycle on a state outside a ramp's span (phi = 90 > 60, clamped to 1)
\* that also yields a truth value strictly inside the interval
C19_Witness ==
    /\ CycleDone
    /\ ClassOf(last.inst) = "Steer"
    /\ state["phi"] = Rat(90, 1)
    /\ fpvals["Left"] = One
    /\ fpvals["Near"] = Rat(3, 10)
    /\ last.result = Rat(3, 10)

\* C20: end-to-end scenario.  A cycle of the go-to-target behavior with
\* phi = 30 and rho = 5 returns with TargetLeft = 25/55, TargetHere = 0, the
\* rule ToLeft fired at 25/55 (the activation of Turn/Left), Vrot = 40 so
\* that get_vrot() is positive, and achievement 0.
GoToTargetCycle ==
    /\ last.op = "run"
    /\ ClassOf(last.inst) = "GoToTarget"
    /\ state["phi"] = Rat(30, 1)
    /\ state["rho"] = Rat(5, 1)

C20_GoToTargetScenario ==
    GoToTargetCycle =>
        /\ last.err = "ok"
        /\ fpvals["TargetLeft"] = Rat(25, 55)
        /\ fpvals["TargetHere"] = Zero
        /\ eval(fevaluator(M), GoToTarget_setup.frules[1].ante).res = Val(Rat(25, 55))
        /\ flsets["Vrot"].mus["Left"] = Rat(25, 55)
        /\ \A l \in DOMAIN flsets["Vrot"].mus \ {"Left"} : flsets["Vrot"].mus[l] = Zero
        /\ DGet(output, "Vrot") = Rat(40, 1)
        /\ get_vrot(M) = Val(radians(Rat(40, 1)))
        /\ last.result = Zero

C20_Witness ==
    /\ GoToTargetCycle
    /\ last.err = "ok"
    /\ DGet(output, "Vrot") = Rat(40, 1)
    /\ last.result = Zero

\* The numeric results of a cycle: the input state, the truth values, the
\* fuzzy sets, the crisp outputs, how the cycle ended and the achievement
Numeric(m) ==
    [state |-> m.state, fpvals |-> m.fpvals, flsets |-> m.flsets, output |-> m.output,
     err |-> m.err, result |-> m.result]

\* C21: the debug level never changes numeric results.  Whatever level a
\* cycle ran at, its truth values, fuzzy sets, crisp outputs and achievement
\* are those the same cycle yields at every other level.
C21_DebugNeverChangesResults ==
    last.op = "run_debug" =>
        \A debug \in DebugLevels :
            Numeric(run_debug(Setup(ClassOf(last.inst)), last.at, last.ext, debug))
              = Numeric([M EXCEPT !.err = last.err, !.result = last.result])

C21_Witness ==
    /\ last.op = "run_debug"
    /\ last.debug = 3
    /\ last.err = "ok"
    /\ last.prev.op = "run_debug"
    /\ \E k \in 1..Len(last.trace) : last.trace[k] = "print_fpreds"
    /\ DGet(output, "Vrot") = Rat(40, 1)

\* The rendering of an atom's value in trace mode
Shown(a) == "[" \o StrOf(fev.fpreds[a]) \o "]"

\* C22: trace mode is a second rendering of the same evaluation.  An FEval
\* with debug > 0 ends every statement as one with debug = 0 does (a value,
\* or the same failure), and for "P AND Q", "P OR Q" and "NOT (P)" the string
\* it returns is the well-formed rendering min([p], [q]), max([p], [q]) and
\* 1 - ([p]).
C22_TraceModeRendering ==
    (fev.done /\ fev.debug > 0) =>
        /\ fev.result.kind = eval([fev EXCEPT !.debug = 0], fev.expr).res.kind
        /\ {"P", "Q"} \subseteq DOMAIN fev.fpreds =>
             /\ Tokenize(fev.expr) = <<"P", "AND", "Q">> =>
                  fev.result = Val("min(" \o Shown("P") \o ", " \o Shown("Q") \o ")")
             /\ Tokenize(fev.expr) = <<"P", "OR", "Q">> =>
                  fev.result = Val("max(" \o Shown("P") \o ", " \o Shown("Q") \o ")")
             /\ Tokenize(fev.expr) = <<"NOT", "(", "P", ")">> =>
                  fev.result = Val("1 - (" \o Shown("P") \o ")")

\* The four tables of an object
Tables(self) ==
    [fpreds |-> self.fpreds, flvars |-> self.flvars, frules |-> self.frules, fgoal |-> self.fgoal]

\* C23: setup() is invoked exactly once, at construction, and never by a run
\* cycle: after any sequence of constructions and cycles every live Behavior
\* has had one setup() call and holds the predicate, linguistic-variable,
\* rule and goal tables its setup() built.
C23_SetupOnceTablesFixed ==
    \A i \in Inst :
        insts[i] # NoInst =>
            /\ tabs[i].setups = 1
            /\ Tables(tabs[i]) = Tables(Setup(insts[i]))

C23_Witness ==
    /\ SecondCycle
    /\ ClassOf(last.inst) = "GoToTarget"
    /\ tabs[last.inst].setups = 1
    /\ Tables(tabs[last.inst]) = Tables(GoToTarget_setup)

\* C24: parenthesization is transparent.  With P bound, eval("(P)") and
\* eval("((P))") return what eval("P") returns, the truth value of P, and
\* consume the whole statement.
C24_ParenthesesTransparent ==
    (fev.done /\ "P" \in DOMAIN fev.fpreds
       /\ Tokenize(fev.expr) \in {<<"(", "P", ")">>, <<"(", "(", "P", ")", ")">>})
        => /\ fev.result = eval(fev, <<"P">>).res
           /\ fev.result = Val(fev.fpreds["P"])
           /\ fev.input = <<>>

C24_Witness ==
    /\ fev.done
    /\ fev.expr = <<"(", "(", "P", ")", ")">>
    /\ "P" \in DOMAIN fev.fpreds
    /\ fev.fpreds["P"] = Rat(3, 10)
    /\ fev.result = Val(Rat(3, 10))

\* The function applied in the current state, at another input
MuAt(x) == mu_call(mfn.f, x).v

\* C25: for a <= b, ramp_up(a,b)(x) is 0 for x <= a, (x-a)/(b-a) for
\* a < x <= b and 1 for x > b, and non-decreasing in x; ramp_down(a,b)(x) is
\* 1 for x <= a, (b-x)/(b-a) for a < x <= b and 0 for x > b, and
\* non-increasing in x.
C25_RampShapes ==
    (mfn.pc = "applied" /\ mfn.shape \in {"ramp_up", "ramp_down"}) =>
        /\ mfn.shape = "ramp_up" =>
             /\ RLeq(mfn.x, mfn.a) => mfn.y = Val(Zero)
             /\ (RLt(mfn.a, mfn.x) /\ RLeq(mfn.x, mfn.b)) =>
                   mfn.y = Val(RDiv(RSub(mfn.x, mfn.a), RSub(mfn.b, mfn.a)))
             /\ RLt(mfn.b, mfn.x) => mfn.y = Val(One)
             /\ \A x2 \in MuInputs : RLeq(mfn.x, x2) => RLeq(mfn.y.v, MuAt(x2))
        /\ mfn.shape = "ramp_down" =>
             /\ RLeq(mfn.x, mfn.a) => mfn.y = Val(One)
             /\ (RLt(mfn.a, mfn.x) /\ RLeq(mfn.x, mfn.b)) =>
                   mfn.y = Val(RDiv(RSub(mfn.b, mfn.x), RSub(mfn.b, mfn.a)))
             /\ RLt(mfn.b, mfn.x) => mfn.y = Val(Zero)
             /\ \A x2 \in MuInputs : RLeq(mfn.x, x2) => RLeq(MuAt(x2), mfn.y.v)

C25_Witness ==
    /\ mfn.pc = "applied"
    /\ mfn.shape = "ramp_down"
    /\ mfn.a = Rat(0, 1) /\ mfn.b = Rat(2, 1)
    /\ mfn.x = Rat(1, 2)
    /\ mfn.y = Val(Rat(3, 4))

\* C26: for a <= b <= c, triangle(a,b,c)(x) is 0 outside [a,c], (x-a)/(b-a)
\* on the rising span and (c-x)/(c-b) on the falling span; and for every
\* builder, also with a span of zero width, no input divides by zero, the
\* value lies in [0,1], and at a zero-width ramp it is 0 or 1.
C26_TriangleAndDegenerateSpans ==
    mfn.pc = "applied" =>
        /\ IsVal(mfn.y)
        /\ InUnit(mfn.y.v)
        /\ (mfn.shape # "triangle" /\ mfn.a = mfn.b) => mfn.y.v \in {Zero, One}
        /\ mfn.shape = "triangle" =>
             /\ (RLt(mfn.x, mfn.a) \/ RLt(mfn.c, mfn.x)) => mfn.y.v = Zero
             /\ (RLt(mfn.a, mfn.x) /\ RLeq(mfn.x, mfn.b)) =>
                   mfn.y.v = RDiv(RSub(mfn.x, mfn.a), RSub(mfn.b, mfn.a))
             /\ (RLt(mfn.b, mfn.x) /\ RLeq(mfn.x, mfn.c)) =>
                   mfn.y.v = RDiv(RSub(mfn.c, mfn.x), RSub(mfn.c, mfn.b))
             /\ (RLt(mfn.a, mfn.b) /\ mfn.x = mfn.a) => mfn.y.v = Zero
             /\ (RLt(mfn.a, mfn.b) /\ mfn.x = mfn.b) => mfn.y.v = One
             /\ (RLt(mfn.b, mfn.c) /\ mfn.x = mfn.c) => mfn.y.v = Zero

\* a triangle whose rising span has zero width, applied inside its falling span
C26_Witness ==
    /\ mfn.pc = "applied"
    /\ mfn.shape = "triangle"
    /\ mfn.a = Rat(1, 1) /\ mfn.b = Rat(1, 1) /\ mfn.c = Rat(2, 1)
    /\ mfn.x = Rat(3, 2)
    /\ mfn.y = Val(Rat(1, 2))

\* The calls that run one cycle
CycleCalls == {"run", "compute_ctr", "ctr_run"}

\* The steps of one cycle of the object self on input e, taken one at a time
\* from the dicts m: the dicts after each step
AfterFuzzify(self, m, e) == set_interpretation(eval_fpreds(self, update_state(self, m, e)))
AfterRules(self, s1)     == eval_frules(self, s1)
AfterDefuzzify(self, s2) == defuzzify(self, s2)
AfterGoal(self, s3)      == run_goal(self, s3)

\* The error of the first step that raises, "ok" when none does
FirstError(s1, s2, s3, s4) ==
    IF s1.err # "ok" THEN s1.err
    ELSE IF s2.err # "ok" THEN s2.err
    ELSE IF s3.err # "ok" THEN s3.err
    ELSE s4.err

\* This step is the cycle whose steps left s1, s2, s3 and s4, and if one of
\* them raised, the call ended with that error and handed nothing to its
\* caller
PropagatedFrom(s1, s2, s3, s4) ==
    /\ state' = s4.state
    /\ fpvals' = s4.fpvals
    /\ FirstError(s1, s2, s3, s4) # "ok" =>
          /\ last'.err = FirstError(s1, s2, s3, s4)
          /\ last'.op = "ctr_run" =>
                /\ ctr'.achieved = ctr.achieved
                /\ ctr'.vlin = ctr.vlin
                /\ ctr'.vrot = ctr.vrot
          /\ last'.op = "compute_ctr" => last'.ret = NoneRes

Propagated3(self, s1, s2, s3) == PropagatedFrom(s1, s2, s3, AfterGoal(self, s3))
Propagated2(self, s1, s2)     == Propagated3(self, s1, s2, AfterDefuzzify(self, s2))
Propagated1(self, s1)         == Propagated2(self, s1, AfterRules(self, s1))
Propagated(self, e)           == Propagated1(self, AfterFuzzify(self, M, e))

\* C27: an error raised in any pipeline step of a cycle propagates out of
\* FController.run, Controller.run and compute_ctr in that same cycle: the
\* call ends with that error, Controller.run stores no achievement or
\* velocity, and compute_ctr returns no velocity pair.
C27_ErrorsPropagate ==
    [][\A i \in Inst :
         (last'.op \in CycleCalls /\ last'.inst = i) =>
            \E e \in PropStates : Propagated(tabs[i], e)]_vars

\* compute_ctr on a behavior whose goal statement cannot be parsed, after a
\* cycle that completed
C27_Witness ==
    /\ last.op = "compute_ctr"
    /\ ClassOf(last.inst) = "Lurch"
    /\ last.err = "AssertionError"
    /\ last.trace[Len(last.trace)] = "eval_goal"
    /\ last.ret = NoneRes
    /\ last.prev.err = "ok"
    /\ last.prev.op \in CycleCalls

\* C28: in a plan executed through execute_plan(plan, maxsteps), each action
\* runs with the achievement threshold 0.9, and maxsteps is its step timeout.
C28_PlanThresholdAndTimeout ==
    (top.inplan /\ top.pc = "loop") =>
        /\ top.threshold = Rat(9, 10)
        /\ top.maxsteps = top.planmax

\* C29: a cycle that fails with an error during rule or goal evaluation
\* leaves the crisp output variables at the values they had before the
\* cycle.
C29_FailedCycleKeepsOutputs ==
    (/\ last.op = "run"
     /\ last.err # "ok"
     /\ \E k \in 1..Len(last.trace) : last.trace[k] \in {"eval_frule", "eval_goal"})
        => output = last.before.output

\* C30: TopLevelLoop.run(maxsteps = N) with N > 0 executes exactly N control
\* steps and then calls shutdown_robot exactly once, in the Lab2, Lab3 and
\* Lab4 loops alike; with maxsteps = 0 the loop does not stop while step
\* returns True.
C30_ExactlyMaxstepsSteps ==
    /\ (loop.pc = "done" /\ loop.maxsteps > 0) =>
          (loop.steps = loop.maxsteps /\ loop.shutdowns = 1)
    /\ (loop.pc = "while" /\ loop.maxsteps > 0) =>
          (loop.steps < loop.maxsteps /\ loop.shutdowns = 0)
    /\ (loop.pc # "idle" /\ loop.maxsteps = 0) => loop.pc = "while"

Supports(o, h) ==
    /\ o.ukn = (IF h = "ukn" THEN One ELSE Zero)
    /\ o.occ = (IF h = "occ" THEN One ELSE Zero)
    /\ o.ept = (IF h = "ept" THEN One ELSE Zero)
    /\ o.cft = Zero

InView(c) ==
    RLeq(RAbs(c.phi), RDiv(c.delta, Rat(2, 1)))

\* C32: Sonar_Model.support, inside the field of view (|phi| <= delta/2),
\* supports occ when |rho - r| <= 0.02, ept when the cell lies before the
\* measured range (rho < r) and ukn when it lies beyond it (rho > r);
\* outside the field of view it supports ukn; exactly one of ukn, occ, ept
\* is 1.0 and every other field is 0.0.
C32_SonarSupport ==
    grid.pc = "support" =>
        /\ \E h \in {"ukn", "occ", "ept"} : Supports(grid.newval, h)
        /\ ~InView(grid.sup) => Supports(grid.newval, "ukn")
        /\ (InView(grid.sup) /\ RLeq(RAbs(RSub(grid.sup.rho, grid.sup.r)), Rat(2, 100))) =>
              Supports(grid.newval, "occ")
        /\ (InView(grid.sup) /\ RLt(grid.sup.rho, RSub(grid.sup.r, Rat(2, 100)))) =>
              Supports(grid.newval, "ept")
        /\ (InView(grid.sup) /\ RLt(RAdd(grid.sup.r, Rat(2, 100)), grid.sup.rho)) =>
              Supports(grid.newval, "ukn")

\* The label l is the only one of mus with non-zero activation
OnlyActive(mus, l) ==
    /\ mus[l] # Zero
    /\ \A l2 \in DOMAIN mus \ {l} : mus[l2] = Zero

\* C33: whenever an output variable has non-zero total activation in a
\* cycle, its crisp value lies between the smallest and the largest crisp
\* value of the labels of its linguistic variable, and equals the crisp value
\* of a label that is the only one with non-zero activation.
C33_CrispWithinLabelValues ==
    CycleDone =>
        \A cvar \in OwnCvars(ClassOf(last.inst)) :
            LET mus  == flsets[cvar].mus
                vals == Crisp(ClassOf(last.inst), cvar)
            IN  ~Total(mus) =>
                  /\ \E l \in DOMAIN vals : RLeq(vals[l], DGet(output, cvar))
                  /\ \E l \in DOMAIN vals : RLeq(DGet(output, cvar), vals[l])
                  /\ \A l \in DOMAIN mus : OnlyActive(mus, l) => DGet(output, cvar) = vals[l]

\* a cycle in which Left alone is active, partly, and Vrot is Left's 40
C33_Witness ==
    /\ CycleDone
    /\ "Vrot" \in OwnCvars(ClassOf(last.inst))
    /\ OnlyActive(flsets["Vrot"].mus, "Left")
    /\ flsets["Vrot"].mus["Left"] # One
    /\ DGet(output, "Vrot") = Rat(40, 1)

\* The rooms the door d connects in the dicts b, and whether Cross can pass
TwoRooms(b, d) == {DGet(b.connects, d)[1], DGet(b.connects, d)[2]}
CanCross(b, d) == b.pos["me"] = d /\ b.room["me"] \in TwoRooms(b, d)

\* C34: the operator Cross(state, door) succeeds only when pos['me'] == door
\* and room['me'] is one of the two rooms the door connects; it then sets
\* room['me'] to the other room of the door and changes nothing else; in
\* every other case it returns False and leaves the state unchanged.
C34_CrossFrame ==
    (htn.pc = "state" /\ htn.op = "Cross") =>
        /\ htn.ret = "state" <=> CanCross(htn.before, htn.arg)
        /\ htn.ret = "state" =>
              /\ htn.room["me"] \in TwoRooms(htn.before, htn.arg) \ {htn.before.room["me"]}
              /\ htn.room = Put(htn.before.room, "me", htn.room["me"])
              /\ htn.pos = htn.before.pos
              /\ htn.connects = htn.before.connects
        /\ htn.ret # "state" =>
              /\ htn.ret = "False"
              /\ Dicts(htn) = htn.before

\* the robot at D1 in Room3 crosses it into Room4
C34_Witness ==
    /\ htn.pc = "state" /\ htn.op = "Cross" /\ htn.arg = "D1"
    /\ htn.ret = "state"
    /\ htn.before.room["me"] = "Room3"
    /\ htn.room["me"] = "Room4"
    /\ htn.pos["me"] = "D1"

\* C35: for every state and target to which a method of navigate_to
\* applies, applying the returned sub-plan step by step through GoTo and
\* Cross succeeds at every step and ends with pos['me'] == target and
\* room['me'] == room[target]; move_across_rooms applies only when the
\* robot's room and the target's room differ and a door connects them.
C35_NavigateReachesTarget ==
    /\ htn.pc # "failed"
    /\ htn.pc = "done" =>
          /\ htn.pos["me"] = htn.arg
          /\ htn.arg \in DOMAIN htn.room
          /\ htn.room["me"] = htn.room[htn.arg]
    /\ (htn.op = "move_across_rooms" /\ htn.ret = "plan") =>
          /\ htn.before.room["me"] # htn.before.room[htn.arg]
          /\ \E k \in 1..Len(htn.before.connects) :
                {htn.before.connects[k][2][1], htn.before.connects[k][2][2]}
                   = {htn.before.room["me"], htn.before.room[htn.arg]}

\* The outcome of eval(stmt) on an evaluator created for this one call and
\* given the interpretation dict
Afresh(dict, stmt) == eval([FEval(stmt) EXCEPT !.fpreds = dict], stmt).res

\* C36: FEval.eval is stateless across calls: its outcome (value or failure
\* kind) depends only on the statement and the current interpretation, so
\* evaluating the same statement twice gives the same outcome, and a
\* preceding eval, successful or failed, never changes the outcome of a
\* later one.
C36_EvalStateless ==
    fev.done =>
        /\ fev.result = Afresh(Evals.interp, fev.expr)
        /\ (Evals.evals >= 2 /\ Evals.earlier.expr = fev.expr
               /\ Evals.earlier.interp = Evals.interp)
              => fev.result = Evals.earlier.result

\* a statement that evaluates to a value right after an eval of another
\* statement that failed and left tokens unread
C36_Witness ==
    /\ fev.done /\ Evals.evals >= 2
    /\ IsVal(fev.result)
    /\ Evals.earlier.expr # fev.expr
    /\ ~IsVal(Evals.earlier.result)
    /\ Evals.earlier.input # <<>>

UnitValue(x) == RLeq(Zero, x) /\ RLeq(x, One)

\* C37: after any sequence of update_grid calls, every cell's ukn is
\* non-increasing and its occ and ept are non-decreasing from one fusion to
\* the next, all three stay in [0,1], and cft is 0 after every fusion; in
\* particular a cell once fused with occ = 1 keeps occ = 1 forever.
C37_FusionMonotone ==
    [][(grid.pc \in {"grid", "updated"} /\ grid'.pc = "updated") =>
          \A c \in DOMAIN grid.cells :
              /\ RLeq(grid'.cells[c].ukn, grid.cells[c].ukn)
              /\ RLeq(grid.cells[c].occ, grid'.cells[c].occ)
              /\ RLeq(grid.cells[c].ept, grid'.cells[c].ept)
              /\ UnitValue(grid'.cells[c].ukn)
              /\ UnitValue(grid'.cells[c].occ)
              /\ UnitValue(grid'.cells[c].ept)
              /\ grid'.cells[c].cft = Zero
              /\ grid.cells[c].occ = One => grid'.cells[c].occ = One]_vars

\* a cell fused with an occupied support and with an empty one, beside a cell
\* still at the prior
C37_Witness ==
    /\ grid.pc = "updated"
    /\ \E c \in DOMAIN grid.cells :
          grid.cells[c].occ = One /\ grid.cells[c].ept = One /\ grid.cells[c].ukn = Zero
    /\ \E c \in DOMAIN grid.cells : grid.cells[c] = Occupancy(prior)

====
